---- MODULE Spec2Model ----
(***************************************************************************)
(* Connection engine of the LDAP server: one accepted connection, its      *)
(* read loop (handleConnection), the dispatch of each message              *)
(* (handleMessage), the handler callbacks, and the Conn methods they call  *)
(* (SendMessage, StartTLS, Close) with the locks they take.                *)
(*                                                                         *)
(* Context 0 is the engine code running on the reader goroutine; context   *)
(* i >= 1 is the handler callback of the i-th message read, which runs on  *)
(* a goroutine of its own (go func) or on the reader goroutine.            *)
(***************************************************************************)
EXTENDS Integers, Sequences, FiniteSets, TLC

\* Number of messages (or read errors) the client delivers on the connection.
MaxMsgs == 2

Ctx == 0..MaxMsgs
Acts == 1..MaxMsgs

NoHolder == -1
NoMsg == [op |-> "None", ok |-> TRUE, arg |-> "-"]

\* ------------------------------------------------------------------------
\* Protocol constants

TypeAbandonRequestOp == "Abandon"
TypeAddRequestOp == "Add"
TypeBindRequestOp == "Bind"
TypeCompareRequestOp == "Compare"
TypeDeleteRequestOp == "Delete"
TypeExtendedRequestOp == "Extended"
TypeModifyRequestOp == "Modify"
TypeModifyDNRequestOp == "ModifyDN"
TypeSearchRequestOp == "Search"
TypeUnbindRequestOp == "Unbind"

TypeBindResponseOp == "BindResponse"
TypeExtendedResponseOp == "ExtendedResponse"

ResultSuccess == "success"
ResultOperationsError == "operationsError"
ResultProtocolError == "protocolError"
ResultUnwillingToPerform == "unwillingToPerform"

OIDNoticeOfDisconnection == "1.3.6.1.4.1.1466.20036"
OIDStartTLS == "1.3.6.1.4.1.1466.20037"

ErrTLSAlreadySetUp == "TLS already set up"
ErrTLSNotAvailable == "TLS not available"
ErrHandshake == "handshake failed"
NoErr == "nil"

\* Response operation a handler answers a request with.
ResponseType(op) ==
    CASE op = TypeAddRequestOp -> "AddResponse"
      [] op = TypeBindRequestOp -> TypeBindResponseOp
      [] op = TypeCompareRequestOp -> "CompareResponse"
      [] op = TypeDeleteRequestOp -> "DeleteResponse"
      [] op = TypeModifyRequestOp -> "ModifyResponse"
      [] op = TypeModifyDNRequestOp -> "ModifyDNResponse"
      [] op = TypeSearchRequestOp -> "SearchResultDone"
      [] OTHER -> TypeExtendedResponseOp

\* ------------------------------------------------------------------------
\* What the client can put on the wire: a message whose envelope decodes
\* (op, whether the payload decodes, and the one payload field the engine or
\* the default handler looks at), or something ReadMessage fails on.

PayloadOps == {TypeAbandonRequestOp, TypeAddRequestOp, TypeBindRequestOp,
               TypeCompareRequestOp, TypeExtendedRequestOp, TypeModifyRequestOp,
               TypeModifyDNRequestOp, TypeSearchRequestOp}

ClientInputs ==
    {[op |-> o, ok |-> FALSE, arg |-> "-"] : o \in PayloadOps}
    \cup {[op |-> TypeAbandonRequestOp, ok |-> TRUE, arg |-> a] : a \in {"inRange", "outOfRange"}}
    \cup {[op |-> TypeBindRequestOp, ok |-> TRUE, arg |-> a] : a \in {"v2", "v3"}}
    \cup {[op |-> TypeExtendedRequestOp, ok |-> TRUE, arg |-> a] : a \in {OIDStartTLS, "1.1"}}
    \cup {[op |-> o, ok |-> TRUE, arg |-> "-"] :
            o \in {TypeAddRequestOp, TypeCompareRequestOp, TypeDeleteRequestOp,
                   TypeModifyRequestOp, TypeModifyDNRequestOp, TypeSearchRequestOp,
                   TypeUnbindRequestOp, "Unknown"}}
    \cup {[op |-> "ReadError", ok |-> FALSE, arg |-> a] : a \in {"decode", "reset"}}

\* ------------------------------------------------------------------------
\* Calls a handler or the engine makes on the Conn.

SendResultCall(mid, rtype, code, name) ==
    [f |-> "SendResult", mid |-> mid, op |-> rtype, code |-> code, name |-> name]
StartTLSCall == [f |-> "StartTLS", mid |-> 0, op |-> "-", code |-> "-", name |-> "-"]
CloseCall == [f |-> "Close", mid |-> 0, op |-> "-", code |-> "-", name |-> "-"]
CloseOnErrCall == [f |-> "CloseOnErr", mid |-> 0, op |-> "-", code |-> "-", name |-> "-"]

\* Writes of a handler to the fields of the Conn it owns.
SetAuthenticationCall ==
    [f |-> "SetAuthentication", mid |-> 0, op |-> "-", code |-> "-", name |-> "-"]
CachePutCall == [f |-> "CachePut", mid |-> 0, op |-> "-", code |-> "-", name |-> "-"]

SendUnsolicitedNotification(code, oid) ==
    SendResultCall(0, TypeExtendedResponseOp, code, oid)

NotifyDisconnect(code) ==
    SendUnsolicitedNotification(code, OIDNoticeOfDisconnection)

VARIABLES
    handler,          \* s.Handler: "BaseHandler" or an application handler
    tlsConfig,        \* Conn.TLSConfig != nil
    conn,             \* Conn.conn: "tcp" or "tls" (tls.Server over the socket)
    closed,           \* Conn.closed, set together with closing the socket
    isTLS,            \* Conn.isTLS
    tlsW,             \* tlsStarting: context that announced / holds Lock
    tlsReaders,       \* tlsStarting: contexts that hold RLock
    sending,          \* sending: context that holds the mutex
    asyncOperations,  \* the WaitGroup counter
    rpc,              \* position of the reader goroutine
    cur,              \* message ReadMessage returned, until it is dispatched
    nread,            \* number of ReadMessage calls that have returned
    defers,           \* deferred calls of the running handleMessage, last first
    act,              \* per message: its operation and the state of its handler
    script,           \* per context: the Conn calls still to make
    cpc,              \* per context: position inside the current Conn call
    cerr,             \* per context: error of its last StartTLS call
    wire,             \* the part of a frame on the socket whose rest is not yet written
    sent,             \* per context: the messages it has written completely
    listenTLS,        \* the listener was made by ListenAndServeTLS
    netListener,      \* the network listener: "none", "open" or "closed"
    listener,         \* s.listener: "nil" or "set"
    done,             \* s.done: "chan" or "nil"
    doneClosed,       \* the done channel has been closed
    srv,              \* position of the goroutine in ListenAndServe / Serve
    shut,             \* per caller of Shutdown: its position
    shutCh,           \* per caller of Shutdown: the s.done it is receiving from
    accepted,         \* number of connections the accept loop has accepted
    Authentication,   \* Conn.Authentication: "nil", or "dn" stored by a Bind handler
    MessageCache,     \* Conn.MessageCache: the message ids that have an entry
    berPc,            \* which BER function has been applied: "start", ...
    berInt,           \* the int64 given to BerEncodeIntegerRaw
    berBytes,         \* the bytes an encoder returned or a decoder is given
    berVal,           \* the int64 BerGetInteger returned
    berSize,          \* the uint32 BerReadSize returned, as two 16-bit halves
    berErr,           \* the error the decoder returned
    berLen,           \* len(data) given to BerEncodeElement, as two halves
    msgPc,            \* which message function has been applied
    msg,              \* the Message given to EncodeWithHeader
    msgBytes,         \* the bytes an encoder returned
    msgRead,          \* the Message ReadLDAPMessage returned
    msgErr,           \* the error the decoder returned
    result,           \* the Result given to Encode
    resultRead,       \* the Result GetResult returned
    filterPc,         \* which kind of filter GetFilter has been given
    members,          \* the elements the client put into the filter
    filterRaw,        \* the raw element given to GetFilter
    filter,           \* the Filter GetFilter returned
    filterErr,        \* the error GetFilter returned
    dnPc,             \* which DN function has been applied
    dnA,              \* the receiver d of a DN predicate
    dnB,              \* the argument of a DN predicate
    dnRel,            \* what each DN predicate returned for dnA and dnB
    dnWritten,        \* the attribute types of dnStr as written, RDN by RDN
    dnStr,            \* the string given to ParseDN
    dnParsed,         \* the DN ParseDN returned
    dnOut,            \* the string dn.String() returned
    dnErr             \* the error ParseDN returned

vars == <<handler, tlsConfig, conn, closed, isTLS, tlsW, tlsReaders, sending,
          asyncOperations, rpc, cur, nread, defers, act, script, cpc, cerr, wire,
          sent, listenTLS, netListener, listener, done, doneClosed, srv, shut,
          shutCh, accepted, Authentication, MessageCache, berPc, berInt,
          berBytes, berVal, berSize, berErr, berLen, msgPc, msg, msgBytes,
          msgRead, msgErr, result, resultRead, filterPc, members,
          filterRaw, filter, filterErr, dnPc, dnA, dnB, dnRel, dnWritten,
          dnStr, dnParsed, dnOut, dnErr>>

connVars == <<conn, closed, isTLS>>
lockVars == <<tlsW, tlsReaders, sending>>
readerVars == <<rpc, cur, nread, defers>>
cfgVars == <<handler, tlsConfig>>
wireVars == <<wire, sent>>
ownedVars == <<Authentication, MessageCache>>
msgVars == <<msgPc, msg, msgBytes, msgRead, msgErr>>
resVars == <<result, resultRead>>
filterVars == <<filterPc, members, filterRaw, filter, filterErr>>
dnVars == <<dnPc, dnA, dnB, dnRel, dnWritten, dnStr, dnParsed, dnOut,
            dnErr>>
codecVars == <<msgVars, resVars, filterVars, dnVars>>
pureVars == <<berPc, berInt, berBytes, berVal, berSize, berErr, berLen,
              codecVars>>
srvVars == <<listenTLS, netListener, listener, done, doneClosed, srv, shut,
             shutCh, accepted>>

NoBytes == [ctx |-> 0, mid |-> 0, op |-> "None", code |-> "-", name |-> "-",
            part |-> 0, io |-> "tcp"]

\* Message i: st is "none" (not read yet), "malformed" (failed to decode),
\* "nohandler" (handled without a handler call), "waiting" (Bind before Wait
\* returns), "deferred" (handler call deferred), "spawned" (go func() not yet
\* running), "running" (inside the handler callback) or "returned".
NoAct == [st |-> "none", op |-> "None", async |-> FALSE]

\* Goroutines that may call Shutdown.
Callers == {1, 2}

\* The Conn that handleConnection builds around an accepted connection.
NewConn(transport) ==
    /\ conn = transport
    /\ closed = FALSE
    /\ isTLS = FALSE
    /\ tlsW = NoHolder
    /\ tlsReaders = {}
    /\ sending = NoHolder
    /\ asyncOperations = 0
    /\ rpc = "loop"
    /\ cur = NoMsg
    /\ nread = 0
    /\ defers = <<>>
    /\ act = [i \in Acts |-> NoAct]
    /\ script = [c \in Ctx |-> <<>>]
    /\ cpc = [c \in Ctx |-> "idle"]
    /\ cerr = [c \in Ctx |-> NoErr]
    /\ wire = NoBytes
    /\ sent = [c \in Ctx |-> <<>>]
    /\ Authentication = "nil"
    /\ MessageCache = {}

\* The server in its accept loop, having accepted the connection.
Accepting(tls) ==
    /\ listenTLS = tls
    /\ netListener = "open"
    /\ listener = "set"
    /\ done = "chan"
    /\ doneClosed = FALSE
    /\ srv = "accept"
    /\ shut = [k \in Callers |-> "idle"]
    /\ shutCh = [k \in Callers |-> "chan"]
    /\ accepted = 1

\* A Message without protocol operation and controls.
NoMessage ==
    [MessageID |-> 0, ProtocolOp |-> [Type |-> 0, Data |-> <<>>],
     Controls |-> <<>>]

\* The zero Result.
NoResult ==
    [ResultCode |-> 0, MatchedDN |-> <<>>, DiagnosticMessage |-> <<>>,
     Referral |-> <<>>]

\* GetFilter returned no Filter.
NoFilter == [Type |-> 0, Data |-> <<>>]

\* No DN predicate has been called.
NoRel ==
    [IsParent |-> FALSE, IsChild |-> FALSE, IsSuperior |-> FALSE,
     IsSubordinate |-> FALSE, IsSibling |-> FALSE, Equal |-> FALSE,
     CommonSuperior |-> <<>>]

\* No codec function has been applied.
NoCodec ==
    /\ berPc = "start"
    /\ berInt = 0
    /\ berBytes = <<>>
    /\ berVal = 0
    /\ berSize = [hi |-> 0, lo |-> 0]
    /\ berErr = NoErr
    /\ berLen = [hi |-> 0, lo |-> 0]
    /\ msgPc = "start"
    /\ msg = NoMessage
    /\ msgBytes = <<>>
    /\ msgRead = NoMessage
    /\ msgErr = NoErr
    /\ result = NoResult
    /\ resultRead = NoResult
    /\ filterPc = "start"
    /\ members = <<>>
    /\ filterRaw = [Type |-> 0, Data |-> <<>>]
    /\ filter = NoFilter
    /\ filterErr = NoErr
    /\ dnPc = "start"
    /\ dnA = <<>>
    /\ dnB = <<>>
    /\ dnRel = NoRel
    /\ dnWritten = <<>>
    /\ dnStr = <<>>
    /\ dnParsed = <<>>
    /\ dnOut = <<>>
    /\ dnErr = NoErr

\* A connection accepted from the listener of ListenAndServe.
Init ==
    /\ handler \in {"BaseHandler", "UserHandler"}
    /\ tlsConfig \in BOOLEAN
    /\ NewConn("tcp")
    /\ Accepting(FALSE)
    /\ NoCodec

\* A connection accepted from the listener of ListenAndServeTLS, which
\* wraps the listener with tls.NewListener: the net.Conn is a TLS connection.
InitTLS ==
    /\ handler \in {"BaseHandler", "UserHandler"}
    /\ tlsConfig = TRUE
    /\ NewConn("tls")
    /\ Accepting(TRUE)
    /\ NoCodec

\* ------------------------------------------------------------------------
\* Handlers

\* What BaseHandler does for a request: the Conn calls it makes, in order.
BaseHandlerScriptTLSFirst(i, op, arg) ==
    CASE op = TypeAbandonRequestOp -> <<>>
      [] op = TypeExtendedRequestOp /\ arg = OIDStartTLS ->
            <<StartTLSCall, CloseOnErrCall,
              SendResultCall(i, TypeExtendedResponseOp, ResultSuccess, OIDStartTLS)>>
      [] op = TypeExtendedRequestOp /\ arg # OIDStartTLS ->
            <<SendResultCall(i, TypeExtendedResponseOp, ResultProtocolError, "")>>
      [] op = "Unknown" -> <<NotifyDisconnect(ResultProtocolError), CloseCall>>
      [] OTHER -> <<SendResultCall(i, ResponseType(op), ResultUnwillingToPerform, "")>>
BaseHandlerScriptSilent(i, op, arg) == <<>>
BaseHandlerScript(i, op, arg) ==
    CASE op = TypeAbandonRequestOp -> <<>>
      [] op = TypeExtendedRequestOp /\ arg = OIDStartTLS ->
            IF ~tlsConfig
            THEN <<SendResultCall(i, TypeExtendedResponseOp, ResultProtocolError, OIDStartTLS)>>
            ELSE IF isTLS
            THEN <<SendResultCall(i, TypeExtendedResponseOp, ResultOperationsError, OIDStartTLS)>>
            ELSE <<SendResultCall(i, TypeExtendedResponseOp, ResultSuccess, OIDStartTLS),
                   StartTLSCall, CloseOnErrCall>>
      [] op = TypeExtendedRequestOp /\ arg # OIDStartTLS ->
            <<SendResultCall(i, TypeExtendedResponseOp, ResultProtocolError, "")>>
      [] op = "Unknown" -> <<NotifyDisconnect(ResultProtocolError), CloseCall>>
      [] OTHER -> <<SendResultCall(i, ResponseType(op), ResultUnwillingToPerform, "")>>

\* An application handler: it answers each request with a result of the
\* request's operation; its Bind callback first stores the bound identity in
\* conn.Authentication and its Search callback first puts an entry for the
\* request in conn.MessageCache; its Extended callback (on the reader
\* goroutine) and its Search callback (on a worker goroutine) may upgrade
\* the connection instead.
UserHandlerScripts(i, op) ==
    {(CASE op = TypeBindRequestOp -> <<SetAuthenticationCall>>
        [] op = TypeSearchRequestOp -> <<CachePutCall>>
        [] OTHER -> <<>>)
     \o <<SendResultCall(i, ResponseType(op), ResultSuccess, "")>>}
    \cup (IF op \in {TypeExtendedRequestOp, TypeSearchRequestOp}
          THEN {<<StartTLSCall>>}
          ELSE {})

HandlerScripts(i, op, arg) ==
    IF handler = "BaseHandler"
    THEN {BaseHandlerScript(i, op, arg)}
    ELSE UserHandlerScripts(i, op)

\* ------------------------------------------------------------------------
\* Dispatch policy of handleMessage

\* Operations whose handler is started with "go func()".
IsConcurrentOpAlsoExtended(op) ==
    op \in {TypeAddRequestOp, TypeCompareRequestOp, TypeDeleteRequestOp,
            TypeSearchRequestOp, TypeExtendedRequestOp}
IsConcurrentOp(op) ==
    op \in {TypeAddRequestOp, TypeCompareRequestOp, TypeDeleteRequestOp, TypeSearchRequestOp}

\* Operations whose handler is registered with "defer func()".
IsDeferredOp(op) == op \in {TypeModifyRequestOp, TypeModifyDNRequestOp}

\* Operations whose handler is called in the body of the switch.
IsInlineOp(op) == op \in {TypeAbandonRequestOp, TypeExtendedRequestOp, "Unknown"}

\* Add(1) and "defer Done()" at the top of handleMessage.
OuterDefersAlways(op) == <<"Done">>
OuterDefers(op) == IF op # TypeBindRequestOp THEN <<"Done">> ELSE <<>>

\* conn.asyncOperations.Add(1) of the reader before "go func()" / "defer func()".
WorkerAddsNothing(op) == 0
WorkerAdds(op) == IF IsConcurrentOp(op) \/ IsDeferredOp(op) THEN 1 ELSE 0

\* Value of the counter at which asyncOperations.Wait() returns.
WaitReturnsAtOnce(n) == TRUE
WaitReturnsOneLeft(n) == n <= 1
WaitReturns(n) == n = 0

\* What the engine does with a Bind request whose version is not 3.
BindVersionCallsThenClose(i) ==
    <<SendResultCall(i, TypeBindResponseOp, ResultProtocolError, ""), CloseCall>>
BindVersionCalls(i) ==
    <<SendResultCall(i, TypeBindResponseOp, ResultProtocolError, "")>>

\* case TypeUnbindRequestOp calls conn.Close().
UnbindClosesNot == FALSE
UnbindCloses == TRUE

\* What the engine does with a message that fails to decode.
DecodeErrorCallsCloseFirst == <<CloseCall, NotifyDisconnect(ResultProtocolError)>>
DecodeErrorCalls == <<NotifyDisconnect(ResultProtocolError), CloseCall>>

\* The payload decoder of the operation returns an error.
DecodeFails(m) == ~m.ok

\* ------------------------------------------------------------------------
\* Locks

\* tlsStarting.RLock() proceeds unless a writer holds or has announced Lock.
CanRLock == tlsW = NoHolder
\* tlsStarting.Lock() first excludes other writers and new readers ...
CanAnnounceLock == tlsW = NoHolder
\* ... then waits for the active readers to leave.
CanAcquireLock == tlsReaders = {}

\* The read loop takes tlsStarting.Lock() around ReadMessage.
ReaderLocksNever == FALSE
ReaderLocks == TRUE

\* sending.Lock() proceeds when no context holds the mutex.
CanLockSendingAlways == TRUE
CanLockSending == sending = NoHolder

\* ------------------------------------------------------------------------
\* Read loop (handleConnection)

\* Top of the loop: return if Close() was called, else tlsStarting.Lock()
\* (first half: no other writer, and new readers are held back).
LoopLock ==
    /\ rpc = "loop"
    /\ IF closed
       THEN /\ rpc' = "exit"
            /\ tlsW' = tlsW
       ELSE IF ReaderLocks
       THEN /\ CanAnnounceLock
            /\ tlsW' = 0
            /\ rpc' = "lockwait"
       ELSE /\ tlsW' = tlsW
            /\ rpc' = "read"
    /\ UNCHANGED <<pureVars, ownedVars, srvVars, cfgVars, connVars, tlsReaders, sending, asyncOperations, cur,
                   nread, defers, act, script, cpc, cerr, wireVars>>

\* tlsStarting.Lock(), second half: the active readers have left.
ReaderLockAcquire ==
    /\ rpc = "lockwait"
    /\ CanAcquireLock
    /\ rpc' = "read"
    /\ UNCHANGED <<pureVars, ownedVars, srvVars, cfgVars, connVars, lockVars, asyncOperations, cur, nread,
                   defers, act, script, cpc, cerr, wireVars>>

\* ReadMessage returns (the client has sent a message, or the read failed)
\* and the reader releases tlsStarting.
ReadMessage ==
    /\ rpc = "read"
    /\ nread < MaxMsgs
    /\ \E m \in ClientInputs :
          cur' = m
    /\ nread' = nread + 1
    /\ tlsW' = IF ReaderLocks THEN NoHolder ELSE tlsW
    /\ rpc' = "dispatch"
    /\ UNCHANGED <<pureVars, ownedVars, srvVars, cfgVars, connVars, tlsReaders, sending, asyncOperations,
                   defers, act, script, cpc, cerr, wireVars>>

\* err != nil, connection reset by the client: Close and return.
ReadReset ==
    /\ rpc = "dispatch"
    /\ cur.op = "ReadError" /\ cur.arg = "reset"
    /\ closed' = TRUE
    /\ act' = [act EXCEPT ![nread].st = "nohandler"]
    /\ cur' = NoMsg
    /\ rpc' = "exit"
    /\ UNCHANGED <<pureVars, ownedVars, srvVars, cfgVars, conn, isTLS, lockVars, asyncOperations, nread,
                   defers, script, cpc, cerr, wireVars>>

\* err != nil otherwise: NotifyDisconnect, Close, return.
ReadFailed ==
    /\ rpc = "dispatch"
    /\ cur.op = "ReadError" /\ cur.arg # "reset"
    /\ script' = [script EXCEPT ![0] = DecodeErrorCalls]
    /\ act' = [act EXCEPT ![nread].st = "malformed"]
    /\ cur' = NoMsg
    /\ rpc' = "engine_exit"
    /\ UNCHANGED <<pureVars, ownedVars, srvVars, cfgVars, connVars, lockVars, asyncOperations, nread, defers,
                   cpc, cerr, wireVars>>

\* ------------------------------------------------------------------------
\* handleMessage

Dispatching == rpc = "dispatch" /\ cur.op # "ReadError"

\* Any case whose payload fails to decode: NotifyDisconnect, Close, return.
HandleDecodeError ==
    /\ Dispatching
    /\ DecodeFails(cur)
    /\ asyncOperations' = asyncOperations + Len(OuterDefers(cur.op))
    /\ defers' = OuterDefers(cur.op)
    /\ script' = [script EXCEPT ![0] = DecodeErrorCalls]
    /\ act' = [act EXCEPT ![nread].st = "malformed"]
    /\ cur' = NoMsg
    /\ rpc' = "engine"
    /\ UNCHANGED <<pureVars, ownedVars, srvVars, cfgVars, connVars, lockVars, nread, cpc, cerr, wireVars>>

\* case TypeAbandonRequestOp with a message id out of range: return.
HandleAbandonInvalid ==
    /\ Dispatching
    /\ ~DecodeFails(cur) /\ cur.op = TypeAbandonRequestOp /\ cur.arg = "outOfRange"
    /\ asyncOperations' = asyncOperations + Len(OuterDefers(cur.op))
    /\ defers' = OuterDefers(cur.op)
    /\ act' = [act EXCEPT ![nread] = [st |-> "nohandler", op |-> cur.op, async |-> FALSE]]
    /\ cur' = NoMsg
    /\ rpc' = "ret"
    /\ UNCHANGED <<pureVars, ownedVars, srvVars, cfgVars, connVars, lockVars, nread, script, cpc, cerr, wireVars>>

\* The handler callback of message i begins on the reader goroutine.
CallHandler(i, op, arg) ==
    /\ \E s \in HandlerScripts(i, op, arg) :
          script' = [script EXCEPT ![i] = s]
    /\ act' = [act EXCEPT ![i] = [st |-> "running", op |-> op, async |-> FALSE]]

\* Abandon, Extended and unknown operations: the handler is called in place.
HandleInline ==
    /\ Dispatching
    /\ ~DecodeFails(cur) /\ IsInlineOp(cur.op)
    /\ cur.op = TypeAbandonRequestOp => cur.arg = "inRange"
    /\ asyncOperations' = asyncOperations + Len(OuterDefers(cur.op))
    /\ defers' = OuterDefers(cur.op)
    /\ CallHandler(nread, cur.op, cur.arg)
    /\ cur' = NoMsg
    /\ rpc' = "call"
    /\ UNCHANGED <<pureVars, ownedVars, srvVars, cfgVars, connVars, lockVars, nread, cpc, cerr, wireVars>>

\* Add, Compare, Delete, Search: Add(1) and go func().
HandleConcurrent ==
    /\ Dispatching
    /\ ~DecodeFails(cur) /\ IsConcurrentOp(cur.op)
    /\ asyncOperations' = asyncOperations + Len(OuterDefers(cur.op)) + WorkerAdds(cur.op)
    /\ defers' = OuterDefers(cur.op)
    /\ act' = [act EXCEPT ![nread] = [st |-> "spawned", op |-> cur.op, async |-> TRUE]]
    /\ cur' = NoMsg
    /\ rpc' = "ret"
    /\ UNCHANGED <<pureVars, ownedVars, srvVars, cfgVars, connVars, lockVars, nread, script, cpc, cerr, wireVars>>

\* Modify, ModifyDN: Add(1) and defer func().
HandleDeferred ==
    /\ Dispatching
    /\ ~DecodeFails(cur) /\ IsDeferredOp(cur.op)
    /\ asyncOperations' = asyncOperations + Len(OuterDefers(cur.op)) + WorkerAdds(cur.op)
    /\ defers' = <<"Handler">> \o OuterDefers(cur.op)
    /\ act' = [act EXCEPT ![nread] = [st |-> "deferred", op |-> cur.op, async |-> FALSE]]
    /\ cur' = NoMsg
    /\ rpc' = "ret"
    /\ UNCHANGED <<pureVars, ownedVars, srvVars, cfgVars, connVars, lockVars, nread, script, cpc, cerr, wireVars>>

\* Bind with a version other than 3: SendResult(protocolError), return.
HandleBindVersion ==
    /\ Dispatching
    /\ ~DecodeFails(cur) /\ cur.op = TypeBindRequestOp /\ cur.arg # "v3"
    /\ asyncOperations' = asyncOperations + Len(OuterDefers(cur.op))
    /\ defers' = OuterDefers(cur.op)
    /\ script' = [script EXCEPT ![0] = BindVersionCalls(nread)]
    /\ act' = [act EXCEPT ![nread] = [st |-> "nohandler", op |-> cur.op, async |-> FALSE]]
    /\ cur' = NoMsg
    /\ rpc' = "engine"
    /\ UNCHANGED <<pureVars, ownedVars, srvVars, cfgVars, connVars, lockVars, nread, cpc, cerr, wireVars>>

\* Bind, version 3: go on to asyncOperations.Wait().
HandleBind ==
    /\ Dispatching
    /\ ~DecodeFails(cur) /\ cur.op = TypeBindRequestOp /\ cur.arg = "v3"
    /\ asyncOperations' = asyncOperations + Len(OuterDefers(cur.op))
    /\ defers' = OuterDefers(cur.op)
    /\ act' = [act EXCEPT ![nread] = [st |-> "waiting", op |-> cur.op, async |-> FALSE]]
    /\ cur' = NoMsg
    /\ rpc' = "bindwait"
    /\ UNCHANGED <<pureVars, ownedVars, srvVars, cfgVars, connVars, lockVars, nread, script, cpc, cerr,
                   wireVars>>

\* asyncOperations.Wait() returns and Handler.Bind is called.
BindWait ==
    /\ rpc = "bindwait"
    /\ WaitReturns(asyncOperations)
    /\ CallHandler(nread, act[nread].op, "-")
    /\ rpc' = "call"
    /\ UNCHANGED <<pureVars, ownedVars, srvVars, cfgVars, connVars, lockVars, asyncOperations, cur, nread,
                   defers, cpc, cerr, wireVars>>

\* case TypeUnbindRequestOp: conn.Close().
HandleUnbind ==
    /\ Dispatching
    /\ cur.op = TypeUnbindRequestOp
    /\ asyncOperations' = asyncOperations + Len(OuterDefers(cur.op))
    /\ defers' = OuterDefers(cur.op)
    /\ closed' = (closed \/ UnbindCloses)
    /\ act' = [act EXCEPT ![nread] = [st |-> "nohandler", op |-> cur.op, async |-> FALSE]]
    /\ cur' = NoMsg
    /\ rpc' = "ret"
    /\ UNCHANGED <<pureVars, ownedVars, srvVars, cfgVars, conn, isTLS, lockVars, nread, script, cpc, cerr,
                   wireVars>>

\* The handler called in place has returned.
CallReturns ==
    /\ rpc = "call"
    /\ act[nread].st = "returned"
    /\ rpc' = "ret"
    /\ UNCHANGED <<pureVars, ownedVars, srvVars, cfgVars, connVars, lockVars, asyncOperations, cur, nread,
                   defers, act, script, cpc, cerr, wireVars>>

\* The engine's own calls (NotifyDisconnect, SendResult, Close) are done.
EngineCallsDone ==
    /\ rpc \in {"engine", "engine_exit"}
    /\ script[0] = <<>> /\ cpc[0] = "idle"
    /\ rpc' = IF rpc = "engine" THEN "ret" ELSE "exit"
    /\ UNCHANGED <<pureVars, ownedVars, srvVars, cfgVars, connVars, lockVars, asyncOperations, cur, nread,
                   defers, act, script, cpc, cerr, wireVars>>

\* handleMessage returns: the deferred func() of Modify/ModifyDN runs first.
RunDeferred ==
    /\ rpc = "ret"
    /\ defers # <<>> /\ Head(defers) = "Handler"
    /\ CallHandler(nread, act[nread].op, "-")
    /\ rpc' = "defercall"
    /\ UNCHANGED <<pureVars, ownedVars, srvVars, cfgVars, connVars, lockVars, asyncOperations, cur, nread,
                   defers, cpc, cerr, wireVars>>

\* The deferred handler has returned: its own deferred Done().
DeferredReturns ==
    /\ rpc = "defercall"
    /\ act[nread].st = "returned"
    /\ asyncOperations' = asyncOperations - 1
    /\ defers' = Tail(defers)
    /\ rpc' = "ret"
    /\ UNCHANGED <<pureVars, ownedVars, srvVars, cfgVars, connVars, lockVars, cur, nread, act, script, cpc,
                   cerr, wireVars>>

\* handleMessage returns: the Done() deferred at its top, back to the loop.
HandleMessageReturns ==
    /\ rpc = "ret"
    /\ IF defers = <<>> THEN TRUE ELSE Head(defers) = "Done"
    /\ asyncOperations' = asyncOperations - Len(defers)
    /\ defers' = <<>>
    /\ rpc' = "loop"
    /\ UNCHANGED <<pureVars, ownedVars, srvVars, cfgVars, connVars, lockVars, cur, nread, act, script, cpc,
                   cerr, wireVars>>

\* ------------------------------------------------------------------------
\* Worker goroutines

\* The goroutine started by "go func()" begins the handler callback.
WorkerStart(i) ==
    /\ act[i].st = "spawned"
    /\ \E s \in HandlerScripts(i, act[i].op, "-") :
          script' = [script EXCEPT ![i] = s]
    /\ act' = [act EXCEPT ![i].st = "running"]
    /\ UNCHANGED <<pureVars, ownedVars, srvVars, cfgVars, connVars, lockVars, asyncOperations, readerVars,
                   cpc, cerr, wireVars>>

\* A handler callback returns; a worker goroutine then runs its deferred Done().
HandlerReturns(i) ==
    /\ act[i].st = "running"
    /\ script[i] = <<>> /\ cpc[i] = "idle"
    /\ act' = [act EXCEPT ![i].st = "returned"]
    /\ cerr' = [cerr EXCEPT ![i] = NoErr]
    /\ asyncOperations' = IF act[i].async THEN asyncOperations - 1 ELSE asyncOperations
    /\ UNCHANGED <<pureVars, ownedVars, srvVars, cfgVars, connVars, lockVars, readerVars, script, cpc, wireVars>>

\* ------------------------------------------------------------------------
\* Conn methods, called by the engine (context 0) or by a handler callback

Calling(c, f) ==
    /\ IF c = 0 THEN rpc \in {"engine", "engine_exit"} ELSE act[c].st = "running"
    /\ script[c] # <<>>
    /\ Head(script[c]).f = f

Bytes(c, part) ==
    [ctx |-> c, mid |-> Head(script[c]).mid, op |-> Head(script[c]).op,
     code |-> Head(script[c]).code, name |-> Head(script[c]).name,
     part |-> part, io |-> conn]

\* What SendMessage does to the MessageCache when it has sent message mid.
SendMessageCacheRemoves(cache, mid) == cache \ {mid}
SendMessageCache(cache, mid) == cache

\* SendMessage: c.tlsStarting.RLock()
SendRLock(c) ==
    /\ Calling(c, "SendResult") /\ cpc[c] = "idle"
    /\ CanRLock
    /\ tlsReaders' = tlsReaders \cup {c}
    /\ cpc' = [cpc EXCEPT ![c] = "slock"]
    /\ UNCHANGED <<pureVars, ownedVars, srvVars, cfgVars, connVars, tlsW, sending, asyncOperations, readerVars,
                   act, script, cerr, wireVars>>

\* SendMessage: c.sending.Lock()
SendLock(c) ==
    /\ Calling(c, "SendResult") /\ cpc[c] = "slock"
    /\ CanLockSending
    /\ sending' = c
    /\ cpc' = [cpc EXCEPT ![c] = "write1"]
    /\ UNCHANGED <<pureVars, ownedVars, srvVars, cfgVars, connVars, tlsW, tlsReaders, asyncOperations,
                   readerVars, act, script, cerr, wireVars>>

\* SendMessage: io.Copy writes the framed message in two pieces; a write on
\* a closed socket fails and ends the copy. The second piece completes the
\* frame on the socket.
SendWrite(c) ==
    /\ Calling(c, "SendResult") /\ cpc[c] \in {"write1", "write2"}
    /\ IF closed
       THEN /\ UNCHANGED wireVars
            /\ cpc' = [cpc EXCEPT ![c] = "sunlock"]
       ELSE IF cpc[c] = "write1"
       THEN /\ wire' = Bytes(c, 1)
            /\ sent' = sent
            /\ cpc' = [cpc EXCEPT ![c] = "write2"]
       ELSE /\ wire' = NoBytes
            /\ sent' = [sent EXCEPT ![c] = Append(@, Bytes(c, 2))]
            /\ cpc' = [cpc EXCEPT ![c] = "sunlock"]
    /\ UNCHANGED <<pureVars, ownedVars, srvVars, cfgVars, connVars, lockVars, asyncOperations, readerVars, act,
                   script, cerr>>

\* SendMessage returns: deferred c.sending.Unlock() and c.tlsStarting.RUnlock().
SendUnlock(c) ==
    /\ Calling(c, "SendResult") /\ cpc[c] = "sunlock"
    /\ sending' = NoHolder
    /\ tlsReaders' = tlsReaders \ {c}
    /\ cpc' = [cpc EXCEPT ![c] = "idle"]
    /\ script' = [script EXCEPT ![c] = Tail(script[c])]
    /\ MessageCache' = SendMessageCache(MessageCache, Head(script[c]).mid)
    /\ UNCHANGED <<pureVars, Authentication, srvVars, cfgVars, connVars, tlsW, asyncOperations,
                   readerVars, act, cerr, wireVars>>

\* The error StartTLS returns before the handshake, NoErr to go on.
StartTLSCheckSwapped(tls, cfg) ==
    IF tls THEN ErrTLSNotAvailable
    ELSE IF ~cfg THEN ErrTLSAlreadySetUp
    ELSE NoErr
StartTLSCheck(tls, cfg) ==
    IF tls THEN ErrTLSAlreadySetUp
    ELSE IF ~cfg THEN ErrTLSNotAvailable
    ELSE NoErr

\* StartTLS: c.tlsStarting.Lock(), first half
StartTLSLock(c) ==
    /\ Calling(c, "StartTLS") /\ cpc[c] = "idle"
    /\ CanAnnounceLock
    /\ tlsW' = c
    /\ cpc' = [cpc EXCEPT ![c] = "tls_lockwait"]
    /\ UNCHANGED <<pureVars, ownedVars, srvVars, cfgVars, connVars, tlsReaders, sending, asyncOperations,
                   readerVars, act, script, cerr, wireVars>>

\* StartTLS: c.tlsStarting.Lock(), second half
StartTLSLockAcquire(c) ==
    /\ Calling(c, "StartTLS") /\ cpc[c] = "tls_lockwait"
    /\ CanAcquireLock
    /\ cpc' = [cpc EXCEPT ![c] = "tls_check"]
    /\ UNCHANGED <<pureVars, ownedVars, srvVars, cfgVars, connVars, lockVars, asyncOperations, readerVars, act,
                   script, cerr, wireVars>>

\* StartTLS: the isTLS and TLSConfig checks; the handshake begins if both pass.
StartTLSBegin(c) ==
    /\ Calling(c, "StartTLS") /\ cpc[c] = "tls_check"
    /\ LET err == StartTLSCheck(isTLS, tlsConfig)
       IN  /\ cerr' = [cerr EXCEPT ![c] = err]
           /\ IF err # NoErr
              THEN cpc' = [cpc EXCEPT ![c] = "tls_unlock"]
              ELSE cpc' = [cpc EXCEPT ![c] = "tls_handshake"]
    /\ UNCHANGED <<pureVars, ownedVars, srvVars, cfgVars, connVars, lockVars, asyncOperations, readerVars, act,
                   script, wireVars>>

\* StartTLS: tlsConn.Handshake() fails; return the error.
StartTLSHandshakeFails(c) ==
    /\ Calling(c, "StartTLS") /\ cpc[c] = "tls_handshake"
    /\ cerr' = [cerr EXCEPT ![c] = ErrHandshake]
    /\ cpc' = [cpc EXCEPT ![c] = "tls_unlock"]
    /\ UNCHANGED <<pureVars, ownedVars, srvVars, cfgVars, connVars, lockVars, asyncOperations, readerVars, act,
                   script, wireVars>>

\* StartTLS: tlsConn.Handshake() succeeds; c.conn = tlsConn.
StartTLSSetConn(c) ==
    /\ Calling(c, "StartTLS") /\ cpc[c] = "tls_handshake"
    /\ ~closed
    /\ conn' = "tls"
    /\ cpc' = [cpc EXCEPT ![c] = "tls_flag"]
    /\ UNCHANGED <<pureVars, ownedVars, srvVars, cfgVars, closed, isTLS, lockVars, asyncOperations, readerVars,
                   act, script, cerr, wireVars>>

\* StartTLS: c.isTLS = true.
StartTLSSetFlag(c) ==
    /\ Calling(c, "StartTLS") /\ cpc[c] = "tls_flag"
    /\ isTLS' = TRUE
    /\ cpc' = [cpc EXCEPT ![c] = "tls_unlock"]
    /\ UNCHANGED <<pureVars, ownedVars, srvVars, cfgVars, conn, closed, lockVars, asyncOperations, readerVars,
                   act, script, cerr, wireVars>>

\* StartTLS: deferred c.tlsStarting.Unlock(), and return.
StartTLSUnlock(c) ==
    /\ Calling(c, "StartTLS") /\ cpc[c] = "tls_unlock"
    /\ tlsW' = NoHolder
    /\ cpc' = [cpc EXCEPT ![c] = "idle"]
    /\ script' = [script EXCEPT ![c] = Tail(script[c])]
    /\ UNCHANGED <<pureVars, ownedVars, srvVars, cfgVars, connVars, tlsReaders, sending, asyncOperations,
                   readerVars, act, cerr, wireVars>>

\* Close: c.conn.Close(); c.closed = true.
Close(c) ==
    /\ Calling(c, "Close")
    /\ closed' = TRUE
    /\ script' = [script EXCEPT ![c] = Tail(script[c])]
    /\ UNCHANGED <<pureVars, ownedVars, srvVars, cfgVars, conn, isTLS, lockVars, asyncOperations, readerVars,
                   act, cpc, cerr, wireVars>>

\* BaseHandler.Extended after StartTLS: if err != nil { conn.Close() }.
CloseOnErr(c) ==
    /\ Calling(c, "CloseOnErr")
    /\ closed' = (closed \/ cerr[c] # NoErr)
    /\ script' = [script EXCEPT ![c] = Tail(script[c])]
    /\ UNCHANGED <<pureVars, ownedVars, srvVars, cfgVars, conn, isTLS, lockVars, asyncOperations, readerVars,
                   act, cpc, cerr, wireVars>>

\* The handler stores the bound identity: conn.Authentication = ...
SetAuthentication(c) ==
    /\ Calling(c, "SetAuthentication")
    /\ Authentication' = "dn"
    /\ script' = [script EXCEPT ![c] = Tail(script[c])]
    /\ UNCHANGED <<pureVars, MessageCache, srvVars, cfgVars, connVars, lockVars,
                   asyncOperations, readerVars, act, cpc, cerr, wireVars>>

\* The handler puts an entry for its request: conn.MessageCache[id] = ...
CachePut(c) ==
    /\ Calling(c, "CachePut")
    /\ MessageCache' = MessageCache \cup {c}
    /\ script' = [script EXCEPT ![c] = Tail(script[c])]
    /\ UNCHANGED <<pureVars, Authentication, srvVars, cfgVars, connVars, lockVars,
                   asyncOperations, readerVars, act, cpc, cerr, wireVars>>

\* ------------------------------------------------------------------------

Next ==
    \/ LoopLock
    \/ ReaderLockAcquire
    \/ ReadMessage
    \/ ReadReset
    \/ ReadFailed
    \/ HandleDecodeError
    \/ HandleAbandonInvalid
    \/ HandleInline
    \/ HandleConcurrent
    \/ HandleDeferred
    \/ HandleBindVersion
    \/ HandleBind
    \/ BindWait
    \/ HandleUnbind
    \/ CallReturns
    \/ EngineCallsDone
    \/ RunDeferred
    \/ DeferredReturns
    \/ HandleMessageReturns
    \/ \E i \in Acts : WorkerStart(i)
    \/ \E i \in Acts : HandlerReturns(i)
    \/ \E c \in Ctx : SendRLock(c)
    \/ \E c \in Ctx : SendLock(c)
    \/ \E c \in Ctx : SendWrite(c)
    \/ \E c \in Ctx : SendUnlock(c)
    \/ \E c \in Ctx : StartTLSLock(c)
    \/ \E c \in Ctx : StartTLSLockAcquire(c)
    \/ \E c \in Ctx : StartTLSBegin(c)
    \/ \E c \in Ctx : StartTLSHandshakeFails(c)
    \/ \E c \in Ctx : StartTLSSetConn(c)
    \/ \E c \in Ctx : StartTLSSetFlag(c)
    \/ \E c \in Ctx : StartTLSUnlock(c)
    \/ \E c \in Ctx : Close(c)
    \/ \E c \in Ctx : CloseOnErr(c)
    \/ \E c \in Acts : SetAuthentication(c)
    \/ \E c \in Acts : CachePut(c)

Spec == Init /\ [][Next]_vars

SpecTLS == InitTLS /\ [][Next]_vars

\* The steps of the goroutine running handleConnection, other than the
\* return of ReadMessage, which waits for the client.
ReaderStep ==
    \/ LoopLock
    \/ ReaderLockAcquire
    \/ ReadReset
    \/ ReadFailed
    \/ HandleDecodeError
    \/ HandleAbandonInvalid
    \/ HandleInline
    \/ HandleConcurrent
    \/ HandleDeferred
    \/ HandleBindVersion
    \/ HandleBind
    \/ BindWait
    \/ HandleUnbind
    \/ CallReturns
    \/ EngineCallsDone
    \/ RunDeferred
    \/ DeferredReturns
    \/ HandleMessageReturns

\* The steps of the engine's own calls (c = 0) or of the handler callback
\* of message c, on whichever goroutine runs it.
CallbackStep(c) ==
    \/ c \in Acts /\ (WorkerStart(c) \/ HandlerReturns(c) \/ SetAuthentication(c) \/ CachePut(c))
    \/ SendRLock(c)
    \/ SendLock(c)
    \/ SendWrite(c)
    \/ SendUnlock(c)
    \/ StartTLSLock(c)
    \/ StartTLSLockAcquire(c)
    \/ StartTLSBegin(c)
    \/ StartTLSHandshakeFails(c)
    \/ StartTLSSetConn(c)
    \/ StartTLSSetFlag(c)
    \/ StartTLSUnlock(c)
    \/ Close(c)
    \/ CloseOnErr(c)

\* The Go scheduler runs every goroutine that can take a step, a blocked
\* Lock, RLock or Wait returns once it can, and a handshake begun ends;
\* the client need not send anything.
Fairness ==
    /\ WF_vars(ReaderStep)
    /\ \A c \in Ctx : WF_vars(CallbackStep(c))

SpecFair == Spec /\ Fairness

\* ------------------------------------------------------------------------
\* Server lifecycle: ListenAndServe / ListenAndServeTLS / Serve on one
\* goroutine, Shutdown on others. The fields s.listener and s.done are read
\* and written without synchronisation.

\* Connections a client opens while the model runs.
MaxConns == 2

engineVars == <<tlsConfig, connVars, lockVars, asyncOperations, readerVars, act,
                script, cpc, cerr, wireVars, ownedVars>>

\* NewLDAPServer, SetupTLS (or not), and no call made yet.
LifeInit ==
    /\ handler \in {"nil", "UserHandler"}
    /\ tlsConfig \in BOOLEAN
    /\ NewConn("tcp")
    /\ listenTLS \in (IF tlsConfig THEN BOOLEAN ELSE {FALSE})
    /\ netListener = "none"
    /\ listener = "nil"
    /\ done = "chan"
    /\ doneClosed = FALSE
    /\ srv = "listen"
    /\ shut = [k \in Callers |-> "idle"]
    /\ shutCh = [k \in Callers |-> "chan"]
    /\ accepted = 0
    /\ NoCodec

\* Values an unsynchronised read of s.listener can return: the value last
\* written, or the nil it held before Serve stored the listener.
ReadListener == {listener, "nil"}

\* Values an unsynchronised read of s.done can return: the value last
\* written, or the channel it held before Shutdown stored nil.
ReadDone == {done, "chan"}

\* Accept on a listener in state l returns the error the loop breaks on.
IsClosedErrorNever(l) == FALSE
IsClosedError(l) == l = "closed"

\* Value of s.listener with which Shutdown returns at once.
ShutdownSkipsNever(l) == FALSE
ShutdownSkips(l) == l = "nil"

\* ListenAndServe / ListenAndServeTLS: net.Listen succeeds, Serve is called.
Listen ==
    /\ srv = "listen"
    /\ netListener' = "open"
    /\ srv' = "serve"
    /\ UNCHANGED <<pureVars, handler, engineVars, listenTLS, listener, done, doneClosed,
                   shut, shutCh, accepted>>

\* net.Listen fails: the error is returned and Serve is not called.
ListenFails ==
    /\ srv = "listen"
    /\ srv' = "returned"
    /\ UNCHANGED <<pureVars, handler, engineVars, listenTLS, netListener, listener, done,
                   doneClosed, shut, shutCh, accepted>>

\* Serve: default handler; if s.done == nil, close the listener and return.
ServeCheckDone ==
    /\ srv = "serve"
    /\ handler' = IF handler = "nil" THEN "BaseHandler" ELSE handler
    /\ IF done = "nil"
       THEN /\ netListener' = "closed"
            /\ srv' = "returned"
       ELSE /\ netListener' = netListener
            /\ srv' = "store"
    /\ UNCHANGED <<pureVars, engineVars, listenTLS, listener, done, doneClosed, shut,
                   shutCh, accepted>>

\* Serve: s.listener = listener (and the send on s.done is deferred).
ServeStore ==
    /\ srv = "store"
    /\ listener' = "set"
    /\ srv' = "accept"
    /\ UNCHANGED <<pureVars, handler, engineVars, listenTLS, netListener, done, doneClosed,
                   shut, shutCh, accepted>>

\* Accept returns a connection: go s.handleConnection(conn).
Accept ==
    /\ srv = "accept"
    /\ netListener = "open"
    /\ accepted < MaxConns
    /\ accepted' = accepted + 1
    /\ UNCHANGED <<pureVars, handler, engineVars, listenTLS, netListener, listener, done,
                   doneClosed, srv, shut, shutCh>>

\* Accept returns "use of closed network connection": break; the deferred
\* function begins the send on s.done.
AcceptClosed ==
    /\ srv = "accept"
    /\ IsClosedError(netListener)
    /\ srv' = "send"
    /\ UNCHANGED <<pureVars, handler, engineVars, listenTLS, netListener, listener, done,
                   doneClosed, shut, shutCh, accepted>>

\* A goroutine calls Shutdown.
ShutdownCall(k) ==
    /\ shut[k] = "idle"
    /\ shut' = [shut EXCEPT ![k] = "check"]
    /\ UNCHANGED <<pureVars, handler, engineVars, listenTLS, netListener, listener, done,
                   doneClosed, srv, shutCh, accepted>>

\* Shutdown: if s.listener == nil { return }
ShutdownCheck(k) ==
    /\ shut[k] = "check"
    /\ \E l \in ReadListener :
          shut' = [shut EXCEPT ![k] = IF ShutdownSkips(l) THEN "returned" ELSE "close"]
    /\ UNCHANGED <<pureVars, handler, engineVars, listenTLS, netListener, listener, done,
                   doneClosed, srv, shutCh, accepted>>

\* Shutdown: s.listener.Close(), then s.done is read for the receive.
ShutdownCloseListener(k) ==
    /\ shut[k] = "close"
    /\ netListener' = "closed"
    /\ \E d \in ReadDone :
          shutCh' = [shutCh EXCEPT ![k] = d]
    /\ shut' = [shut EXCEPT ![k] = "recv"]
    /\ UNCHANGED <<pureVars, handler, engineVars, listenTLS, listener, done, doneClosed,
                   srv, accepted>>

\* Shutdown: <-s.done. A receive from a nil channel never returns; a receive
\* from the channel meets the send deferred by Serve, or returns at once
\* when the channel has been closed.
ShutdownRecv(k) ==
    /\ shut[k] = "recv"
    /\ shutCh[k] = "chan"
    /\ \/ /\ ~doneClosed
          /\ srv = "send"
          /\ srv' = "returned"
       \/ /\ doneClosed
          /\ srv' = srv
    /\ shut' = [shut EXCEPT ![k] = "close_done"]
    /\ UNCHANGED <<pureVars, handler, engineVars, listenTLS, netListener, listener, done,
                   doneClosed, shutCh, accepted>>

\* Shutdown: close(s.done); closing a nil or a closed channel panics.
ShutdownCloseDone(k) ==
    /\ shut[k] = "close_done"
    /\ \E d \in ReadDone :
          IF d = "nil" \/ doneClosed
          THEN /\ shut' = [shut EXCEPT ![k] = "panicked"]
               /\ doneClosed' = doneClosed
          ELSE /\ shut' = [shut EXCEPT ![k] = "set_nil"]
               /\ doneClosed' = TRUE
    /\ UNCHANGED <<pureVars, handler, engineVars, listenTLS, netListener, listener, done,
                   srv, shutCh, accepted>>

\* Shutdown: s.done = nil, and return.
ShutdownSetNil(k) ==
    /\ shut[k] = "set_nil"
    /\ done' = "nil"
    /\ shut' = [shut EXCEPT ![k] = "returned"]
    /\ UNCHANGED <<pureVars, handler, engineVars, listenTLS, netListener, listener,
                   doneClosed, srv, shutCh, accepted>>

LifeNext ==
    \/ Listen
    \/ ListenFails
    \/ ServeCheckDone
    \/ ServeStore
    \/ Accept
    \/ AcceptClosed
    \/ \E k \in Callers : ShutdownCall(k)
    \/ \E k \in Callers : ShutdownCheck(k)
    \/ \E k \in Callers : ShutdownCloseListener(k)
    \/ \E k \in Callers : ShutdownRecv(k)
    \/ \E k \in Callers : ShutdownCloseDone(k)
    \/ \E k \in Callers : ShutdownSetNil(k)

LifeSpec == LifeInit /\ [][LifeNext]_vars

\* Every goroutine that can take a step takes one; clients need not
\* connect and Shutdown need not be called.
LifeFairness ==
    /\ WF_vars(Listen \/ ListenFails)
    /\ WF_vars(ServeCheckDone)
    /\ WF_vars(ServeStore)
    /\ WF_vars(AcceptClosed)
    /\ \A k \in Callers :
          /\ WF_vars(ShutdownCheck(k))
          /\ WF_vars(ShutdownCloseListener(k))
          /\ WF_vars(ShutdownRecv(k))
          /\ WF_vars(ShutdownCloseDone(k))
          /\ WF_vars(ShutdownSetNil(k))

LifeSpecFair == LifeSpec /\ LifeFairness

\* ------------------------------------------------------------------------
\* BER codec: BerEncodeIntegerRaw, BerGetInteger, BerReadSize

ErrIntegerTooLarge == "integer too large"
ErrUnexpectedEOF == "EOF"

\* Integers -MaxBerInt..MaxBerInt are given to the encoder, together with
\* the values around the powers of 256 listed in IntInputs.
MaxBerInt == 300

IntInputs ==
    (-MaxBerInt..MaxBerInt)
    \cup {32767, 32768, 50000, 65535, 65536, 8388607, 8388608, 16777216,
          2147483647}
    \cup {-12345, -32768, -32769, -65536, -8388608, -8388609, -2147483647}

\* byte(x) of a signed integer: its low eight bits.
Byte(x) == x % 256

\* i >> k on an int64 (arithmetic shift).
ShiftRight(i, k) == i \div (2 ^ k)

\* for i > 127 { numBytes++; i >>= 8 }: the final <<i, numBytes>>.
RECURSIVE ShrinkPositive(_, _)
ShrinkPositive(i, numBytes) ==
    IF i > 127 THEN ShrinkPositive(ShiftRight(i, 8), numBytes + 1)
    ELSE <<i, numBytes>>

\* for i < -128 { numBytes++; i >>= 8 }: the final <<i, numBytes>>.
RECURSIVE ShrinkNegative(_, _)
ShrinkNegative(i, numBytes) ==
    IF i < -128 THEN ShrinkNegative(ShiftRight(i, 8), numBytes + 1)
    ELSE <<i, numBytes>>

\* The output loop: out[j] = byte(i >> uint((numBytes-1)*8)), with the i the
\* two loops above have left.
BerEncodeIntegerRaw(i) ==
    LET p == ShrinkPositive(i, 1)
        q == ShrinkNegative(p[1], p[2])
    IN  [j \in 1..q[2] |-> Byte(ShiftRight(q[1], (q[2] - j) * 8))]

\* n <<= 8; n |= int64(b) over the bytes, beginning from n.
RECURSIVE Accumulate(_, _)
Accumulate(n, data) ==
    IF data = <<>> THEN n
    ELSE Accumulate(n * 256 + Head(data), Tail(data))

\* BerGetInteger: the bytes are accumulated and the two shifts by
\* 64 - 8*len(data) extend the sign from the top bit of the first byte.
BerGetInteger(data) ==
    IF Len(data) > 8
    THEN [err |-> ErrIntegerTooLarge, val |-> 0]
    ELSE IF data = <<>>
    THEN [err |-> NoErr, val |-> 0]
    ELSE [err |-> NoErr,
          val |-> Accumulate(IF data[1] >= 128 THEN data[1] - 256 ELSE data[1],
                             Tail(data))]

\* A uint32 as its two 16-bit halves; res <<= 8; res |= uint32(b).
ShiftIn(res, b) ==
    [hi |-> (res.hi * 256 + res.lo \div 256) % 65536,
     lo |-> (res.lo % 256) * 256 + b]

\* The loop of BerReadSize over the nbytes bytes after the first.
RECURSIVE ReadSizeBytes(_, _, _)
ReadSizeBytes(res, nbytes, rest) ==
    IF nbytes = 0 THEN [err |-> NoErr, size |-> res]
    ELSE IF rest = <<>> THEN [err |-> ErrUnexpectedEOF, size |-> [hi |-> 0, lo |-> 0]]
    ELSE ReadSizeBytes(ShiftIn(res, Head(rest)), nbytes - 1, Tail(rest))

\* BerReadSize on a reader that holds the bytes r.
BerReadSize(r) ==
    IF r = <<>> THEN [err |-> ErrUnexpectedEOF, size |-> [hi |-> 0, lo |-> 0]]
    ELSE IF r[1] < 128 THEN [err |-> NoErr, size |-> [hi |-> 0, lo |-> r[1]]]
    ELSE IF r[1] - 128 > 4
    THEN [err |-> ErrIntegerTooLarge, size |-> [hi |-> 0, lo |-> 0]]
    ELSE ReadSizeBytes([hi |-> 0, lo |-> 0], r[1] - 128, Tail(r))

\* Bytes a client can put after the first byte of a length.
ByteSamples == {0, 1, 127, 128, 255}

\* Lengths as a client can put them on the wire: the first byte and up to
\* four (five for the long forms that are refused) bytes after it.
SizeInputs ==
    {<<b>> : b \in {0, 1, 57, 127, 128, 129, 132, 133, 255}}
    \cup {<<128, b>> : b \in ByteSamples}
    \cup {<<129, b>> : b \in ByteSamples}
    \cup {<<130, b, c>> : b \in ByteSamples, c \in ByteSamples}
    \cup {<<131, b, c, d>> : b \in ByteSamples, c \in ByteSamples, d \in ByteSamples}
    \cup {<<132, b, c, d, e>> : b \in ByteSamples, c \in ByteSamples,
                                d \in ByteSamples, e \in ByteSamples}
    \cup {<<132, b, c>> : b \in ByteSamples, c \in ByteSamples}
    \cup {<<f, 0, 0, 0, 0, b>> : f \in {133, 134, 255}, b \in ByteSamples}

\* The length bytes BerEncodeElement appends after the type byte, for
\* size = len(data) given as two 16-bit halves; a hi of 65536 or more
\* stands for a size above 0xffffffff.
PanicSizeTooLarge == "panic: size too large"

EncodeSize(size) ==
    IF size.hi = 0 /\ size.lo < 128
    THEN <<size.lo>>
    ELSE IF size.hi = 0
    THEN <<130, size.lo \div 256, size.lo % 256>>
    ELSE IF size.hi <= 255
    THEN <<131, size.hi % 256, size.lo \div 256, size.lo % 256>>
    ELSE IF size.hi <= 65535
    THEN <<132, size.hi \div 256, size.hi % 256, size.lo \div 256,
           size.lo % 256>>
    ELSE <<>>

EncodeSizePanics(size) == size.hi > 65535

\* Lengths of data given to BerEncodeElement.
HalfSamples == {0, 1, 127, 128, 255, 256, 32768, 65535}

LenInputs ==
    {[hi |-> 0, lo |-> l] : l \in 0..MaxBerInt}
    \cup {[hi |-> h, lo |-> l] : h \in HalfSamples \cup {65536}, l \in HalfSamples}

connectionVars == <<handler, engineVars, ownedVars, srvVars>>

BerInit ==
    /\ handler = "BaseHandler"
    /\ tlsConfig = FALSE
    /\ NewConn("tcp")
    /\ Accepting(FALSE)
    /\ NoCodec

\* BerEncodeIntegerRaw(i) is called.
EncodeInteger ==
    /\ berPc = "start"
    /\ \E i \in IntInputs :
          /\ berInt' = i
          /\ berBytes' = BerEncodeIntegerRaw(i)
    /\ berPc' = "encoded"
    /\ UNCHANGED <<connectionVars, berVal, berSize, berErr, berLen, codecVars>>

\* BerGetInteger is called on what the encoder returned.
DecodeInteger ==
    /\ berPc = "encoded"
    /\ berVal' = BerGetInteger(berBytes).val
    /\ berErr' = BerGetInteger(berBytes).err
    /\ berPc' = "decoded"
    /\ UNCHANGED <<connectionVars, berInt, berBytes, berSize, berLen, codecVars>>

\* BerReadSize is called on a reader holding bytes of the client.
ReadSize ==
    /\ berPc = "start"
    /\ \E r \in SizeInputs :
          /\ berBytes' = r
          /\ berSize' = BerReadSize(r).size
          /\ berErr' = BerReadSize(r).err
    /\ berPc' = "size"
    /\ UNCHANGED <<connectionVars, berInt, berVal, berLen, codecVars>>

\* BerEncodeElement is called with data of some length; berBytes holds the
\* length bytes it wrote. A length above 0xffffffff panics.
EncodeLength ==
    /\ berPc = "start"
    /\ \E size \in LenInputs :
          /\ berLen' = size
          /\ berBytes' = EncodeSize(size)
          /\ berPc' = IF EncodeSizePanics(size) THEN "panicked" ELSE "length"
          /\ berErr' = IF EncodeSizePanics(size) THEN PanicSizeTooLarge ELSE NoErr
    /\ UNCHANGED <<connectionVars, berInt, berVal, berSize, codecVars>>

\* BerReadSize is called on the length bytes BerEncodeElement wrote.
ReadLength ==
    /\ berPc = "length"
    /\ berSize' = BerReadSize(berBytes).size
    /\ berErr' = BerReadSize(berBytes).err
    /\ berPc' = "length_read"
    /\ UNCHANGED <<connectionVars, berInt, berBytes, berVal, berLen, codecVars>>

BerNext ==
    \/ EncodeInteger
    \/ DecodeInteger
    \/ ReadSize
    \/ EncodeLength
    \/ ReadLength

BerSpec == BerInit /\ [][BerNext]_vars

\* ------------------------------------------------------------------------
\* Message envelope: BerEncodeElement, BerReadElement, BerGetSequence,
\* Message.EncodeWithHeader, ReadLDAPMessage. Byte strings and Go strings
\* are sequences of numbers 0..255.

BerTypeBoolean == 1
BerTypeInteger == 2
BerTypeOctetString == 4
BerTypeEnumerated == 10
BerTypeSequence == 48
BerClassUniversal == 0
BerClassContextSpecific == 128

ErrInvalidBoolean == "invalid boolean data"
ErrInvalidMessageID == "invalid message ID"
ErrInvalidOID == "invalid OID"
ErrWrongElementType == "wrong element type"
ErrWrongSequenceLength == "wrong sequence length"
ErrTLSToNonTLS == "TLS connection to non-TLS server"

\* BerContextSpecificType(tag, constructed)
BerContextSpecificType(tag, constructed) ==
    BerClassContextSpecific + tag + (IF constructed THEN 32 ELSE 0)

\* t.Class(): t & 0b11000000
Class(t) == (t \div 64) * 64

\* t.TagNumber(): t & 0b00011111
TagNumber(t) == t % 32

\* BerEncodeElement: the type byte, the length bytes and the data.
BerEncodeElement(etype, data) ==
    <<etype>> \o EncodeSize([hi |-> 0, lo |-> Len(data)]) \o data

BerEncodeInteger(i) == BerEncodeElement(BerTypeInteger, BerEncodeIntegerRaw(i))

BerEncodeEnumerated(i) ==
    BerEncodeElement(BerTypeEnumerated, BerEncodeIntegerRaw(i))

BerEncodeOctetString(str) == BerEncodeElement(BerTypeOctetString, str)

BerEncodeSequence(data) == BerEncodeElement(BerTypeSequence, data)

BerEncodeBoolean(b) ==
    IF b THEN <<BerTypeBoolean, 1, 255>> ELSE <<BerTypeBoolean, 1, 0>>

\* The suffix of r from its (n+1)th byte.
Drop(r, n) == SubSeq(r, n + 1, Len(r))

\* Number of bytes BerReadSize consumes from a reader on which it succeeds.
SizeBytesRead(r) == IF r[1] < 128 THEN 1 ELSE 1 + (r[1] - 128)

\* BerReadElement on a reader holding r: the element and what is left in
\* the reader. A reader that ends early gives io.EOF or io.ErrUnexpectedEOF.
BerReadElement(r) ==
    LET failed(e) == [err |-> e, Type |-> 0, Data |-> <<>>, rest |-> <<>>]
        take(length) ==
            IF length.err # NoErr THEN failed(length.err)
            ELSE LET buf == Drop(Tail(r), SizeBytesRead(Tail(r)))
                 IN  IF length.size.hi > 0 \/ length.size.lo > Len(buf)
                     THEN failed(ErrUnexpectedEOF)
                     ELSE [err |-> NoErr, Type |-> r[1],
                           Data |-> SubSeq(buf, 1, length.size.lo),
                           rest |-> Drop(buf, length.size.lo)]
    IN  IF r = <<>> THEN failed(ErrUnexpectedEOF)
        ELSE take(BerReadSize(Tail(r)))

\* BerGetSequence: the elements of data in order, or the first error.
RECURSIVE BerGetSequence(_)
BerGetSequence(data) ==
    LET append(elmt, more) ==
            IF more.err # NoErr THEN more
            ELSE [err |-> NoErr,
                  elmts |-> <<[Type |-> elmt.Type, Data |-> elmt.Data]>> \o more.elmts]
        next(elmt) ==
            IF elmt.err # NoErr THEN [err |-> elmt.err, elmts |-> <<>>]
            ELSE append(elmt, BerGetSequence(elmt.rest))
    IN  IF data = <<>> THEN [err |-> NoErr, elmts |-> <<>>]
        ELSE next(BerReadElement(data))

\* BerGetBoolean
BerGetBoolean(data) ==
    IF Len(data) # 1 THEN [err |-> ErrInvalidBoolean, val |-> FALSE]
    ELSE [err |-> NoErr, val |-> data[1] # 0]

\* oid.Validate(): the regular expression ^[0-9]+(\.[0-9]+)*$ over the
\* bytes; 48..57 are the digits and 46 is the dot.
IsDigit(ch) == 48 <= ch /\ ch <= 57

ValidOID(oid) ==
    /\ oid # <<>>
    /\ \A j \in 1..Len(oid) : IsDigit(oid[j]) \/ oid[j] = 46
    /\ IsDigit(oid[1]) /\ IsDigit(oid[Len(oid)])
    /\ \A j \in 1..(Len(oid) - 1) : ~(oid[j] = 46 /\ oid[j + 1] = 46)

\* The body of the loop over the controls in ReadLDAPMessage, for one
\* element c of the controls sequence.
ReadControl(c) ==
    LET failed(e) == [err |-> e, control |-> <<>>]
    IN  IF c.Type # BerTypeSequence THEN failed(ErrWrongElementType)
        ELSE LET got == BerGetSequence(c.Data)
                 c_parts == got.elmts
             IN  IF got.err # NoErr THEN failed(got.err)
                 ELSE IF Len(c_parts) \notin {1, 2, 3}
                 THEN failed(ErrWrongSequenceLength)
                 ELSE IF c_parts[1].Type # BerTypeOctetString
                 THEN failed(ErrWrongElementType)
                 ELSE IF ~ValidOID(c_parts[1].Data) THEN failed(ErrInvalidOID)
                 ELSE LET hasCrit == Len(c_parts) > 1
                                     /\ c_parts[2].Type # BerTypeOctetString
                          crit == IF hasCrit THEN BerGetBoolean(c_parts[2].Data)
                                  ELSE [err |-> NoErr, val |-> FALSE]
                          cvi == IF hasCrit THEN 2 ELSE 1
                      IN  IF hasCrit /\ c_parts[2].Type # BerTypeBoolean
                          THEN failed(ErrWrongElementType)
                          ELSE IF crit.err # NoErr THEN failed(crit.err)
                          ELSE IF Len(c_parts) = cvi + 1
                                  /\ c_parts[cvi + 1].Type # BerTypeOctetString
                          THEN failed(ErrWrongElementType)
                          ELSE [err |-> NoErr,
                                control |->
                                  [OID |-> c_parts[1].Data,
                                   Criticality |-> crit.val,
                                   ControlValue |->
                                     IF Len(c_parts) = cvi + 1
                                     THEN c_parts[cvi + 1].Data ELSE <<>>]]

\* The loop over c_seq: the controls read, or the first error.
RECURSIVE ReadControls(_)
ReadControls(c_seq) ==
    IF c_seq = <<>> THEN [err |-> NoErr, controls |-> <<>>]
    ELSE LET first == ReadControl(Head(c_seq))
         IN  IF first.err # NoErr THEN [err |-> first.err, controls |-> <<>>]
             ELSE LET more == ReadControls(Tail(c_seq))
                  IN  IF more.err # NoErr THEN more
                      ELSE [err |-> NoErr,
                            controls |-> <<first.control>> \o more.controls]

\* ReadLDAPMessage on a reader holding r.
ReadLDAPMessage(r) ==
    LET failed(e) == [err |-> e, msg |-> NoMessage]
        raw == BerReadElement(r)
    IN  IF raw.err # NoErr THEN failed(raw.err)
        ELSE IF raw.Type # BerTypeSequence
        THEN (IF raw.Type = 22 /\ Len(raw.Data) = 3 THEN failed(ErrTLSToNonTLS)
              ELSE failed(ErrWrongElementType))
        ELSE LET got == BerGetSequence(raw.Data)
                 seq == got.elmts
             IN  IF got.err # NoErr THEN failed(got.err)
                 ELSE IF Len(seq) \notin {2, 3} THEN failed(ErrWrongSequenceLength)
                 ELSE IF seq[1].Type # BerTypeInteger
                 THEN failed(ErrWrongElementType)
                 ELSE LET messageID == BerGetInteger(seq[1].Data)
                      IN  IF messageID.err # NoErr THEN failed(messageID.err)
                          ELSE IF messageID.val < 0
                          THEN failed(ErrInvalidMessageID)
                          ELSE IF Len(seq) = 3
                                  /\ seq[3].Type # BerContextSpecificType(0, TRUE)
                          THEN failed(ErrWrongElementType)
                          ELSE LET c_seq == IF Len(seq) = 3
                                            THEN BerGetSequence(seq[3].Data)
                                            ELSE [err |-> NoErr, elmts |-> <<>>]
                                   read == ReadControls(c_seq.elmts)
                               IN  IF c_seq.err # NoErr THEN failed(c_seq.err)
                                   ELSE IF read.err # NoErr THEN failed(read.err)
                                   ELSE [err |-> NoErr,
                                         msg |-> [MessageID |-> messageID.val,
                                                  ProtocolOp |-> seq[2],
                                                  Controls |-> read.controls]]

\* The bytes EncodeWithHeader writes for one control.
EncodeControl(ctrl) ==
    BerEncodeSequence(
        BerEncodeOctetString(ctrl.OID)
        \o (IF ctrl.Criticality THEN BerEncodeBoolean(ctrl.Criticality) ELSE <<>>)
        \o (IF ctrl.ControlValue # <<>>
            THEN BerEncodeOctetString(ctrl.ControlValue) ELSE <<>>))

RECURSIVE EncodeControls(_)
EncodeControls(controls) ==
    IF controls = <<>> THEN <<>>
    ELSE EncodeControl(Head(controls)) \o EncodeControls(Tail(controls))

\* msg.EncodeWithHeader()
EncodeWithHeader(m) ==
    BerEncodeSequence(
        BerEncodeInteger(m.MessageID)
        \o BerEncodeElement(m.ProtocolOp.Type, m.ProtocolOp.Data)
        \o (IF Len(m.Controls) > 0
            THEN BerEncodeSequence(EncodeControls(m.Controls)) ELSE <<>>))

\* Messages given to the encoder. The ids are those around the powers of
\* 256 up to maxInt; the operations are a BindResponse, an UnbindRequest
\* and a SearchResultEntry of 128 bytes; up to MaxControls controls.
MaxControls == 2

MessageIDInputs == {0, 1, 127, 128, 255, 256, 65535, 65536, 2147483647}

ProtocolOpInputs ==
    {[Type |-> 97, Data |-> <<10, 1, 0, 4, 0, 4, 0>>],
     [Type |-> 66, Data |-> <<>>],
     [Type |-> 100, Data |-> [j \in 1..128 |-> 7]]}

\* "1.1", "2.16.840" and "1" as OIDs; "" and "v" as control values.
ControlInputs ==
    {[OID |-> oid, Criticality |-> crit, ControlValue |-> val] :
        oid \in {<<49, 46, 49>>, <<50, 46, 49, 54, 46, 56, 52, 48>>},
        crit \in BOOLEAN,
        val \in {<<>>, <<118>>}}

RECURSIVE SeqsUpTo(_, _)
SeqsUpTo(S, n) ==
    IF n = 0 THEN {<<>>}
    ELSE SeqsUpTo(S, n - 1)
         \cup {Append(q, x) : q \in {p \in SeqsUpTo(S, n - 1) : Len(p) = n - 1},
                              x \in S}

MessageInputs ==
    {[MessageID |-> id, ProtocolOp |-> op, Controls |-> controls] :
        id \in MessageIDInputs, op \in ProtocolOpInputs,
        controls \in SeqsUpTo(ControlInputs, MaxControls)}

\* The strings of the referral sequence r_seq.
RECURSIVE OctetStrings(_)
OctetStrings(r_seq) ==
    IF r_seq = <<>> THEN <<>>
    ELSE <<Head(r_seq).Data>> \o OctetStrings(Tail(r_seq))

\* GetResult
GetResult(data) ==
    LET failed(e) == [err |-> e, res |-> NoResult]
        got == BerGetSequence(data)
        seq == got.elmts
    IN  IF got.err # NoErr THEN failed(got.err)
        ELSE IF Len(seq) \notin {3, 4} THEN failed(ErrWrongSequenceLength)
        ELSE IF seq[1].Type # BerTypeEnumerated THEN failed(ErrWrongElementType)
        ELSE LET resultCode == BerGetInteger(seq[1].Data)
             IN  IF resultCode.err # NoErr THEN failed(resultCode.err)
                 ELSE IF seq[2].Type # BerTypeOctetString
                 THEN failed(ErrWrongElementType)
                 ELSE IF seq[3].Type # BerTypeOctetString
                 THEN failed(ErrWrongElementType)
                 ELSE IF Len(seq) = 4
                         /\ (Class(seq[4].Type) # BerClassContextSpecific
                             \/ TagNumber(seq[4].Type) # 3)
                 THEN failed(ErrWrongElementType)
                 ELSE LET r_seq == IF Len(seq) = 4 THEN BerGetSequence(seq[4].Data)
                                   ELSE [err |-> NoErr, elmts |-> <<>>]
                      IN  IF r_seq.err # NoErr THEN failed(r_seq.err)
                          ELSE [err |-> NoErr,
                                res |-> [ResultCode |-> resultCode.val,
                                         MatchedDN |-> seq[2].Data,
                                         DiagnosticMessage |-> seq[3].Data,
                                         Referral |-> OctetStrings(r_seq.elmts)]]

RECURSIVE EncodeReferrals(_)
EncodeReferrals(refs) ==
    IF refs = <<>> THEN <<>>
    ELSE BerEncodeOctetString(Head(refs)) \o EncodeReferrals(Tail(refs))

\* r.Encode()
ResultEncode(r) ==
    BerEncodeEnumerated(r.ResultCode)
    \o BerEncodeOctetString(r.MatchedDN)
    \o BerEncodeOctetString(r.DiagnosticMessage)
    \o (IF Len(r.Referral) > 0
        THEN BerEncodeSequence(EncodeReferrals(r.Referral)) ELSE <<>>)

\* Results given to the encoder: success, referral, other, and codes
\* around 128; "" or a short string as matched DN and diagnostic message;
\* up to MaxReferrals URIs out of "a" and "ldap".
MaxReferrals == 2

ResultCodeInputs == {0, 2, 10, 80, 127, 128, 4096}

StringInputs == {<<>>, <<111, 61, 120>>}

ReferralInputs == {<<97>>, <<108, 100, 97, 112>>}

ResultInputs ==
    {[ResultCode |-> code, MatchedDN |-> dn, DiagnosticMessage |-> diag,
      Referral |-> refs] :
        code \in ResultCodeInputs, dn \in StringInputs, diag \in StringInputs,
        refs \in SeqsUpTo(ReferralInputs, MaxReferrals)}

MsgInit ==
    /\ handler = "BaseHandler"
    /\ tlsConfig = FALSE
    /\ NewConn("tcp")
    /\ Accepting(FALSE)
    /\ NoCodec

berVars == <<berPc, berInt, berBytes, berVal, berSize, berErr, berLen>>

\* m.EncodeWithHeader() is called on a Message.
EncodeMessage ==
    /\ msgPc = "start"
    /\ \E m \in MessageInputs :
          /\ msg' = m
          /\ msgBytes' = EncodeWithHeader(m)
    /\ msgPc' = "encoded"
    /\ UNCHANGED <<connectionVars, berVars, msgRead, msgErr, resVars,
                   filterVars, dnVars>>

\* ReadLDAPMessage is called on a reader holding the encoded bytes.
ReadMessageBytes ==
    /\ msgPc = "encoded"
    /\ msgRead' = ReadLDAPMessage(msgBytes).msg
    /\ msgErr' = ReadLDAPMessage(msgBytes).err
    /\ msgPc' = "read"
    /\ UNCHANGED <<connectionVars, berVars, msg, msgBytes, resVars,
                   filterVars, dnVars>>

\* r.Encode() is called on a Result.
EncodeResult ==
    /\ msgPc = "start"
    /\ \E r \in ResultInputs :
          /\ result' = r
          /\ msgBytes' = ResultEncode(r)
    /\ msgPc' = "result_encoded"
    /\ UNCHANGED <<connectionVars, berVars, msg, msgRead, msgErr, resultRead,
                   filterVars, dnVars>>

\* GetResult is called on the encoded bytes.
DecodeResult ==
    /\ msgPc = "result_encoded"
    /\ resultRead' = GetResult(msgBytes).res
    /\ msgErr' = GetResult(msgBytes).err
    /\ msgPc' = "result_read"
    /\ UNCHANGED <<connectionVars, berVars, msg, msgBytes, msgRead, result,
                   filterVars, dnVars>>

\* The bytes SendResult has SendMessage write on the connection.
SendResultMessage(messageID, controls, rtype, r) ==
    [MessageID |-> messageID,
     ProtocolOp |-> [Type |-> rtype, Data |-> ResultEncode(r)],
     Controls |-> controls]

\* Responses of the server: a BindResponse (0x61), a SearchResultDone (0x65)
\* or an ExtendedResponse (0x78) with success or protocolError, the
\* controls nil as in every SendResult call of the server.
ResponseTypeInputs == {97, 101, 120}

SentResultInputs ==
    {r \in ResultInputs : r.ResultCode \in {0, 2} /\ r.Referral = <<>>}

\* SendResult(messageID, nil, rtype, r) writes its message.
SendResultBytes ==
    /\ msgPc = "start"
    /\ \E messageID \in MessageIDInputs, rtype \in ResponseTypeInputs,
          r \in SentResultInputs :
          /\ msg' = SendResultMessage(messageID, <<>>, rtype, r)
          /\ msgBytes' = EncodeWithHeader(SendResultMessage(messageID, <<>>, rtype, r))
    /\ msgPc' = "sent"
    /\ UNCHANGED <<connectionVars, berVars, msgRead, msgErr, resVars,
                   filterVars, dnVars>>

\* The client reads the response with ReadLDAPMessage.
ClientReads ==
    /\ msgPc = "sent"
    /\ msgRead' = ReadLDAPMessage(msgBytes).msg
    /\ msgErr' = ReadLDAPMessage(msgBytes).err
    /\ msgPc' = "sent_read"
    /\ UNCHANGED <<connectionVars, berVars, msg, msgBytes, resVars,
                   filterVars, dnVars>>

MsgNext ==
    \/ EncodeMessage
    \/ ReadMessageBytes
    \/ EncodeResult
    \/ DecodeResult
    \/ SendResultBytes
    \/ ClientReads

MsgSpec == MsgInit /\ [][MsgNext]_vars

\* ------------------------------------------------------------------------
\* Search filters: GetFilter, GetAttributeValueAssertion.

FilterTypeAnd == 0
FilterTypeOr == 1
FilterTypeNot == 2
FilterTypeEqual == 3
FilterTypeSubstrings == 4
FilterTypeGreaterOrEqual == 5
FilterTypeLessOrEqual == 6
FilterTypePresent == 7
FilterTypeApproxMatch == 8
FilterTypeExtensibleMatch == 9
FilterTypeAbsoluteTrue == 160
FilterTypeAbsoluteFalse == 161

\* GetAttributeValueAssertion
GetAttributeValueAssertion(data) ==
    LET got == BerGetSequence(data)
        seq == got.elmts
    IN  IF got.err # NoErr THEN [err |-> got.err, Data |-> <<>>]
        ELSE IF Len(seq) # 2 THEN [err |-> ErrWrongSequenceLength, Data |-> <<>>]
        ELSE IF seq[1].Type # BerTypeOctetString \/ seq[2].Type # BerTypeOctetString
        THEN [err |-> ErrWrongElementType, Data |-> <<>>]
        ELSE [err |-> NoErr,
              Data |-> [Description |-> seq[1].Data, Value |-> seq[2].Data]]

\* The loop of GetFilter over the substring choices, beginning from the
\* SubstringFilter sf.
RECURSIVE ReadSubstrings(_, _)
ReadSubstrings(sf, seq) ==
    IF seq = <<>> THEN [err |-> NoErr, Data |-> sf]
    ELSE LET rs == Head(seq)
         IN  IF Class(rs.Type) # BerClassContextSpecific
             THEN [err |-> ErrWrongElementType, Data |-> <<>>]
             ELSE IF TagNumber(rs.Type) = 0
             THEN (IF sf.Initial # <<>>
                   THEN [err |-> ErrWrongElementType, Data |-> <<>>]
                   ELSE ReadSubstrings([sf EXCEPT !.Initial = rs.Data], Tail(seq)))
             ELSE IF TagNumber(rs.Type) = 1
             THEN ReadSubstrings([sf EXCEPT !.Any = Append(@, rs.Data)], Tail(seq))
             ELSE IF TagNumber(rs.Type) = 2
             THEN (IF sf.Final # <<>>
                   THEN [err |-> ErrWrongElementType, Data |-> <<>>]
                   ELSE ReadSubstrings([sf EXCEPT !.Final = rs.Data], Tail(seq)))
             ELSE [err |-> ErrWrongElementType, Data |-> <<>>]

\* case FilterTypeSubstrings of GetFilter
GetSubstringFilter(data) ==
    LET got == BerGetSequence(data)
        seq == got.elmts
    IN  IF got.err # NoErr THEN [err |-> got.err, Data |-> <<>>]
        ELSE IF Len(seq) # 2 THEN [err |-> ErrWrongSequenceLength, Data |-> <<>>]
        ELSE IF seq[1].Type # BerTypeOctetString
        THEN [err |-> ErrWrongElementType, Data |-> <<>>]
        ELSE IF seq[2].Type # BerTypeSequence
        THEN [err |-> ErrWrongElementType, Data |-> <<>>]
        ELSE LET subs == BerGetSequence(seq[2].Data)
             IN  IF subs.err # NoErr THEN [err |-> subs.err, Data |-> <<>>]
                 ELSE ReadSubstrings([Attribute |-> seq[1].Data, Initial |-> <<>>,
                                      Any |-> <<>>, Final |-> <<>>], subs.elmts)

\* case FilterTypeExtensibleMatch of GetFilter
GetMatchingRuleAssertion(data) ==
    LET got == BerGetSequence(data)
        seq == got.elmts
        hasRule == Len(seq) > 0 /\ seq[1].Type = BerContextSpecificType(1, FALSE)
        i1 == IF hasRule THEN 1 ELSE 0
        hasAttr == Len(seq) > i1 /\ seq[i1 + 1].Type = BerContextSpecificType(2, FALSE)
        i == IF hasAttr THEN i1 + 1 ELSE i1
    IN  IF got.err # NoErr THEN [err |-> got.err, Data |-> <<>>]
        ELSE IF Len(seq) <= i \/ Len(seq) > i + 2
        THEN [err |-> ErrWrongSequenceLength, Data |-> <<>>]
        ELSE IF seq[i + 1].Type # BerContextSpecificType(3, FALSE)
        THEN [err |-> ErrWrongElementType, Data |-> <<>>]
        ELSE IF i + 1 < Len(seq) /\ seq[i + 2].Type # BerContextSpecificType(4, FALSE)
        THEN [err |-> ErrWrongElementType, Data |-> <<>>]
        ELSE LET dna == IF i + 1 < Len(seq) THEN BerGetBoolean(seq[i + 2].Data)
                        ELSE [err |-> NoErr, val |-> FALSE]
             IN  IF dna.err # NoErr THEN [err |-> dna.err, Data |-> <<>>]
                 ELSE [err |-> NoErr,
                       Data |-> [MatchingRule |-> IF hasRule THEN seq[1].Data ELSE <<>>,
                                 Attribute |-> IF hasAttr THEN seq[i1 + 1].Data ELSE <<>>,
                                 Value |-> seq[i + 1].Data,
                                 DNAttributes |-> dna.val]]

\* GetFilter; the loop over the members of an And or Or is GetFilters.
RECURSIVE GetFilter(_)
RECURSIVE GetFilters(_)
GetFilters(seq) ==
    IF seq = <<>> THEN [err |-> NoErr, Data |-> <<>>]
    ELSE LET first == GetFilter(Head(seq))
         IN  IF first.err # NoErr THEN [err |-> first.err, Data |-> <<>>]
             ELSE LET more == GetFilters(Tail(seq))
                  IN  IF more.err # NoErr THEN more
                      ELSE [err |-> NoErr, Data |-> <<first.f>> \o more.Data]

GetFilter(r) ==
    LET ftype == IF r.Type = BerContextSpecificType(0, TRUE) /\ Len(r.Data) = 0
                 THEN FilterTypeAbsoluteTrue
                 ELSE IF r.Type = BerContextSpecificType(1, TRUE) /\ Len(r.Data) = 0
                 THEN FilterTypeAbsoluteFalse
                 ELSE TagNumber(r.Type)
        finish(d) == IF d.err # NoErr THEN [err |-> d.err, f |-> NoFilter]
                   ELSE [err |-> NoErr, f |-> [Type |-> ftype, Data |-> d.Data]]
    IN  IF Class(r.Type) # BerClassContextSpecific
        THEN [err |-> ErrWrongElementType, f |-> NoFilter]
        ELSE IF ftype \in {FilterTypeAnd, FilterTypeOr}
        THEN LET got == BerGetSequence(r.Data)
             IN  IF got.err # NoErr THEN [err |-> got.err, f |-> NoFilter]
                 ELSE finish(GetFilters(got.elmts))
        ELSE IF ftype = FilterTypeNot
        THEN LET elmt == BerReadElement(r.Data)
             IN  IF elmt.err # NoErr THEN [err |-> elmt.err, f |-> NoFilter]
                 ELSE LET inner == GetFilter([Type |-> elmt.Type, Data |-> elmt.Data])
                      IN  finish([err |-> inner.err, Data |-> inner.f])
        ELSE IF ftype \in {FilterTypeEqual, FilterTypeGreaterOrEqual,
                           FilterTypeLessOrEqual, FilterTypeApproxMatch}
        THEN finish(GetAttributeValueAssertion(r.Data))
        ELSE IF ftype = FilterTypeSubstrings THEN finish(GetSubstringFilter(r.Data))
        ELSE IF ftype = FilterTypePresent THEN finish([err |-> NoErr, Data |-> r.Data])
        ELSE IF ftype = FilterTypeExtensibleMatch
        THEN finish(GetMatchingRuleAssertion(r.Data))
        ELSE finish([err |-> NoErr, Data |-> r])

\* The bytes of the elements in order, each with its header.
RECURSIVE EncodeElements(_)
EncodeElements(elmts) ==
    IF elmts = <<>> THEN <<>>
    ELSE BerEncodeElement(Head(elmts).Type, Head(elmts).Data)
         \o EncodeElements(Tail(elmts))

\* Substring choices a client can send: initial, any, final, tag 3 and a
\* universal octet string, each with value "" or "a"; up to MaxSubstrings
\* of them.
MaxSubstrings == 3

SubstringInputs ==
    {[Type |-> t, Data |-> v] : t \in {128, 129, 130, 131, 4},
                                v \in {<<>>, <<97>>}}

\* Members of a MatchingRuleAssertion a client can send: matchingRule,
\* type, matchValue, dnAttributes true and false; up to MaxMembers of them.
MaxMembers == 4

MemberInputs ==
    {[Type |-> 129, Data |-> <<114>>], [Type |-> 130, Data |-> <<99, 110>>],
     [Type |-> 131, Data |-> <<118>>], [Type |-> 132, Data |-> <<255>>],
     [Type |-> 132, Data |-> <<0>>]}

\* Other filters a client can send: (cn=*), (cn=v), (!(cn=*)),
\* (&(cn=*)(cn=v)), (|), (&), a filter of universal class, and one of an
\* unknown type.
PresentCn == [Type |-> 135, Data |-> <<99, 110>>]

EqualCnV ==
    [Type |-> 163,
     Data |-> BerEncodeOctetString(<<99, 110>>) \o BerEncodeOctetString(<<118>>)]

OtherFilterInputs ==
    {PresentCn, EqualCnV,
     [Type |-> 162, Data |-> EncodeElements(<<PresentCn>>)],
     [Type |-> 160, Data |-> EncodeElements(<<PresentCn, EqualCnV>>)],
     [Type |-> 161, Data |-> <<>>],
     [Type |-> 160, Data |-> <<>>],
     [Type |-> 163, Data |-> BerEncodeOctetString(<<99, 110>>)],
     [Type |-> 4, Data |-> <<99, 110>>],
     [Type |-> 170, Data |-> <<1>>]}

FilterInit ==
    /\ handler = "BaseHandler"
    /\ tlsConfig = FALSE
    /\ NewConn("tcp")
    /\ Accepting(FALSE)
    /\ NoCodec

\* The client sends a Substrings filter on the attribute cn, and GetFilter
\* is called on it.
ParseSubstrings ==
    /\ filterPc = "start"
    /\ \E ms \in SeqsUpTo(SubstringInputs, MaxSubstrings) :
          LET r == [Type |-> 164,
                    Data |-> BerEncodeOctetString(<<99, 110>>)
                             \o BerEncodeSequence(EncodeElements(ms))]
          IN  /\ members' = ms
              /\ filterRaw' = r
              /\ filter' = GetFilter(r).f
              /\ filterErr' = GetFilter(r).err
    /\ filterPc' = "substrings"
    /\ UNCHANGED <<connectionVars, berVars, msgVars, resVars, dnVars>>

\* The client sends an ExtensibleMatch filter, and GetFilter is called on it.
ParseExtensibleMatch ==
    /\ filterPc = "start"
    /\ \E ms \in SeqsUpTo(MemberInputs, MaxMembers) :
          LET r == [Type |-> 169, Data |-> EncodeElements(ms)]
          IN  /\ members' = ms
              /\ filterRaw' = r
              /\ filter' = GetFilter(r).f
              /\ filterErr' = GetFilter(r).err
    /\ filterPc' = "extensible"
    /\ UNCHANGED <<connectionVars, berVars, msgVars, resVars, dnVars>>

\* The client sends another filter, and GetFilter is called on it.
ParseOther ==
    /\ filterPc = "start"
    /\ \E r \in OtherFilterInputs :
          /\ filterRaw' = r
          /\ filter' = GetFilter(r).f
          /\ filterErr' = GetFilter(r).err
    /\ filterPc' = "other"
    /\ UNCHANGED <<connectionVars, berVars, msgVars, resVars, members, dnVars>>

FilterNext ==
    \/ ParseSubstrings
    \/ ParseExtensibleMatch
    \/ ParseOther

FilterSpec == FilterInit /\ [][FilterNext]_vars

\* ------------------------------------------------------------------------
\* Distinguished names. A DN is the sequence of its RDNs, the root first;
\* an RDN is the sequence of its attributes [Type, Value].

\* r.Equal(other)
RDNEqual(r, other) ==
    /\ Len(r) = Len(other)
    /\ \A i \in 1..Len(r) :
          r[i].Type = other[i].Type /\ r[i].Value = other[i].Value

\* d.Equal(other)
DNEqual(d, other) ==
    /\ Len(d) = Len(other)
    /\ \A i \in 1..Len(d) : RDNEqual(d[i], other[i])

\* d.IsParent(child)
IsParent(d, child) ==
    IF Len(d) + 1 # Len(child) THEN FALSE
    ELSE IF Len(d) = 0 THEN TRUE
    ELSE \A i \in 1..Len(d) : RDNEqual(child[i], d[i])

\* d.IsChild(other)
IsChild(d, other) == IsParent(other, d)

\* d.IsSuperior(other), with the length test turned round.
IsSuperiorOrLonger(d, other) ==
    IF Len(d) < Len(other) THEN FALSE
    ELSE \A i \in 1..Len(d) : i <= Len(other) => RDNEqual(d[i], other[i])

\* d.IsSuperior(other)
IsSuperior(d, other) ==
    IF Len(d) >= Len(other) THEN FALSE
    ELSE \A i \in 1..Len(d) : RDNEqual(d[i], other[i])

\* d.IsSubordinate(other)
IsSubordinate(d, other) == IsSuperior(other, d)

\* d.IsSibling(other)
IsSibling(d, other) ==
    IF Len(d) # Len(other) THEN FALSE
    ELSE IF Len(d) = 0 THEN TRUE
    ELSE \A i \in 1..(Len(d) - 1) : RDNEqual(d[i], other[i])

\* The loop of CommonSuperior from index i (counted from 1).
RECURSIVE CommonSuperiorFrom(_, _, _)
CommonSuperiorFrom(d, other, i) ==
    IF i > Len(d) THEN d
    ELSE IF i - 1 = Len(other) \/ ~RDNEqual(d[i], other[i])
    THEN SubSeq(d, 1, i - 1)
    ELSE CommonSuperiorFrom(d, other, i + 1)

\* d.CommonSuperior(other)
CommonSuperior(d, other) ==
    IF Len(d) = 0 \/ Len(other) = 0 THEN <<>>
    ELSE CommonSuperiorFrom(d, other, 1)

\* RDNs the DNs are built from: dc=com, ou=users, the multi-valued
\* cn=a+ou=users and the same attributes the other way round; DNs of up to
\* MaxRDNs of them.
MaxRDNs == 3

RDNInputs ==
    {<<[Type |-> "dc", Value |-> "com"]>>,
     <<[Type |-> "ou", Value |-> "users"]>>,
     <<[Type |-> "cn", Value |-> "a"], [Type |-> "ou", Value |-> "users"]>>,
     <<[Type |-> "ou", Value |-> "users"], [Type |-> "cn", Value |-> "a"]>>}

DNInputs == SeqsUpTo(RDNInputs, MaxRDNs)

DNInit ==
    /\ handler = "BaseHandler"
    /\ tlsConfig = FALSE
    /\ NewConn("tcp")
    /\ Accepting(FALSE)
    /\ NoCodec

\* Each structural predicate is called on a pair of DNs.
CompareDNs ==
    /\ dnPc = "start"
    /\ \E a \in DNInputs, b \in DNInputs :
          /\ dnA' = a
          /\ dnB' = b
          /\ dnRel' = [IsParent |-> IsParent(a, b),
                       IsChild |-> IsChild(a, b),
                       IsSuperior |-> IsSuperior(a, b),
                       IsSubordinate |-> IsSubordinate(a, b),
                       IsSibling |-> IsSibling(a, b),
                       Equal |-> DNEqual(a, b),
                       CommonSuperior |-> CommonSuperior(a, b)]
    /\ dnPc' = "compared"
    /\ UNCHANGED <<connectionVars, berVars, msgVars, resVars, filterVars,
                   dnWritten, dnStr, dnParsed, dnOut, dnErr>>

DNNext ==
    \/ CompareDNs

DNSpec == DNInit /\ [][DNNext]_vars

\* ------------------------------------------------------------------------
\* DN strings: ParseDN and DN.String. Strings are sequences of bytes.

ErrInvalidDN == "invalid DN"
PanicIndexOutOfRange == "panic: index out of range"

\* The number of backslashes (92) directly before position i of s.
RECURSIVE BackslashesBefore(_, _)
BackslashesBefore(s, i) ==
    IF i > 1 /\ s[i - 1] = 92 THEN 1 + BackslashesBefore(s, i - 1) ELSE 0

\* The loop of splitRDNs and splitAttrs from position i, the current piece
\* beginning at start: s is cut at each sep that has an even number of
\* backslashes before it.
RECURSIVE SplitFrom(_, _, _, _)
SplitFrom(s, sep, i, start) ==
    IF i > Len(s) THEN <<SubSeq(s, start, Len(s))>>
    ELSE IF s[i] = sep /\ BackslashesBefore(s, i) % 2 = 0
    THEN <<SubSeq(s, start, i - 1)>> \o SplitFrom(s, sep, i + 1, i + 1)
    ELSE SplitFrom(s, sep, i + 1, start)

Reverse(a) == [j \in 1..Len(a) |-> a[Len(a) + 1 - j]]

\* splitRDNs: the pieces between unescaped commas (44), last first.
splitRDNs(s) == IF s = <<>> THEN <<>> ELSE Reverse(SplitFrom(s, 44, 1, 1))

\* splitAttrs: the pieces between unescaped plus signs (43).
splitAttrs(s) == IF s = <<>> THEN <<>> ELSE SplitFrom(s, 43, 1, 1)

\* splitAttr: strings.SplitN(s, "=", 2)
splitAttr(s) ==
    IF \A j \in 1..Len(s) : s[j] # 61 THEN <<s>>
    ELSE LET eq == CHOOSE j \in 1..Len(s) :
                       s[j] = 61 /\ \A k \in 1..(j - 1) : s[k] # 61
         IN  <<SubSeq(s, 1, eq - 1), SubSeq(s, eq + 1, Len(s))>>

\* The bytes made from the hex string after '#': (s[i]-'0')<<4 + (s[i+1]-'0')
\* in byte arithmetic, from position i in steps of two.
RECURSIVE HexStringBytes(_, _)
HexStringBytes(s, i) ==
    IF i + 1 > Len(s) THEN <<>>
    ELSE <<Byte(Byte(Byte(s[i] - 48) * 16) + Byte(s[i + 1] - 48))>>
         \o HexStringBytes(s, i + 2)

\* The characters strconv.ParseUint(..., 16, 8) accepts, and their values.
IsHexDigit(ch) ==
    IsDigit(ch) \/ (65 <= ch /\ ch <= 70) \/ (97 <= ch /\ ch <= 102)

HexDigitValue(ch) ==
    IF IsDigit(ch) THEN ch - 48 ELSE IF ch <= 70 THEN ch - 55 ELSE ch - 87

\* " + , ; < > space \ = #
EscapedChars == {34, 43, 44, 59, 60, 62, 32, 92, 61, 35}

\* The second loop of DecodeRDNAttributeValue from position i.
RECURSIVE Unescape(_, _)
Unescape(s, i) ==
    IF i > Len(s) THEN <<>>
    ELSE IF s[i] # 92 THEN <<s[i]>> \o Unescape(s, i + 1)
    ELSE IF i + 1 > Len(s) THEN Unescape(s, i + 1)
    ELSE IF s[i + 1] \in EscapedChars THEN <<s[i + 1]>> \o Unescape(s, i + 2)
    ELSE IF i + 2 <= Len(s) /\ IsHexDigit(s[i + 1]) /\ IsHexDigit(s[i + 2])
    THEN <<HexDigitValue(s[i + 1]) * 16 + HexDigitValue(s[i + 2])>>
         \o Unescape(s, i + 3)
    ELSE <<92>> \o Unescape(s, i + 1)

\* DecodeRDNAttributeValue. After '#' (35), an odd number of characters
\* makes s[i+1] an index out of range.
DecodeRDNAttributeValue(s) ==
    IF Len(s) = 0 THEN [err |-> NoErr, value |-> s]
    ELSE IF s[1] = 35
    THEN (IF Len(s) % 2 = 0 THEN [err |-> PanicIndexOutOfRange, value |-> <<>>]
          ELSE LET elmt == BerReadElement(HexStringBytes(s, 2))
               IN  IF elmt.err # NoErr THEN [err |-> elmt.err, value |-> <<>>]
                   ELSE IF elmt.Type # BerTypeOctetString
                   THEN [err |-> ErrWrongElementType, value |-> <<>>]
                   ELSE [err |-> NoErr, value |-> elmt.Data])
    ELSE [err |-> NoErr, value |-> Unescape(s, 1)]

\* The inner loop of ParseDN over the attributes of one RDN.
RECURSIVE ParseAttrs(_)
ParseAttrs(attrs) ==
    IF attrs = <<>> THEN [err |-> NoErr, r |-> <<>>]
    ELSE LET parts == splitAttr(Head(attrs))
         IN  IF Len(parts) < 2 THEN [err |-> ErrInvalidDN, r |-> <<>>]
             ELSE LET decoded == DecodeRDNAttributeValue(parts[2])
                      more == ParseAttrs(Tail(attrs))
                  IN  IF decoded.err # NoErr THEN [err |-> decoded.err, r |-> <<>>]
                      ELSE IF more.err # NoErr THEN more
                      ELSE [err |-> NoErr,
                            r |-> <<[Type |-> parts[1], Value |-> decoded.value]>>
                                  \o more.r]

\* The outer loop of ParseDN over the RDNs.
RECURSIVE ParseRDNs(_)
ParseRDNs(rdns) ==
    IF rdns = <<>> THEN [err |-> NoErr, dn |-> <<>>]
    ELSE LET r == ParseAttrs(splitAttrs(Head(rdns)))
         IN  IF r.err # NoErr THEN [err |-> r.err, dn |-> <<>>]
             ELSE LET more == ParseRDNs(Tail(rdns))
                  IN  IF more.err # NoErr THEN more
                      ELSE [err |-> NoErr, dn |-> <<r.r>> \o more.dn]

\* ParseDN
ParseDN(s) == ParseRDNs(splitRDNs(s))

\* The two upper-case hex characters of a byte.
HexChar(d) == IF d < 10 THEN 48 + d ELSE 55 + d

HexUpper(b) == <<HexChar(b \div 16), HexChar(b % 16)>>

RECURSIVE HexUpperAll(_)
HexUpperAll(bs) ==
    IF bs = <<>> THEN <<>> ELSE HexUpper(Head(bs)) \o HexUpperAll(Tail(bs))

\* unicode.IsPrint(rune(b)) for a byte b.
IsPrint(b) == (32 <= b /\ b <= 126) \/ (161 <= b /\ b <= 255 /\ b # 173)

\* What RDNAttribute.String appends for the byte at position i (from 1) of
\* the value v.
EscapeByte(v, i) ==
    LET b == v[i]
    IN  IF b = 32 THEN (IF i = 1 \/ i = Len(v) THEN <<92, b>> ELSE <<b>>)
        ELSE IF b = 35 THEN (IF i = 1 THEN <<92, b>> ELSE <<b>>)
        ELSE IF b \in {34, 43, 44, 59, 60, 62, 92, 61} THEN <<92, b>>
        ELSE IF b = 0 THEN <<92, 48, 48>>
        ELSE IF IsPrint(b) THEN <<b>>
        ELSE <<92>> \o HexUpper(b)

RECURSIVE EscapeFrom(_, _)
EscapeFrom(v, i) ==
    IF i > Len(v) THEN <<>> ELSE EscapeByte(v, i) \o EscapeFrom(v, i + 1)

\* a.String()
RDNAttributeString(a) ==
    IF ValidOID(a.Type)
    THEN a.Type \o <<61, 35>> \o HexUpperAll(BerEncodeOctetString(a.Value))
    ELSE a.Type \o <<61>> \o EscapeFrom(a.Value, 1)

\* r.String(): the attributes from position i, joined with '+'.
RECURSIVE RDNStringFrom(_, _)
RDNStringFrom(r, i) ==
    IF i > Len(r) THEN <<>>
    ELSE (IF i > 1 THEN <<43>> ELSE <<>>) \o RDNAttributeString(r[i])
         \o RDNStringFrom(r, i + 1)

RDNString(r) == RDNStringFrom(r, 1)

\* d.String(): the RDNs from position i down to the first, joined with ','.
RECURSIVE DNStringFrom(_, _)
DNStringFrom(d, i) ==
    IF i < 1 THEN <<>>
    ELSE (IF i < Len(d) THEN <<44>> ELSE <<>>) \o RDNString(d[i])
         \o DNStringFrom(d, i - 1)

DNString(d) == DNStringFrom(d, Len(d))

\* Attribute strings that are valid by RFC 4514, with their types:
\*   cn=a  dc=b c  cn=a\,b  cn=a\2Cb  1.1=#040161  1.1=#04016A
\*   ou=#040161  cn=\ a\   ou=x\+y  cn=  cn=\0D  sn=a\\  cn=a=b  cn=\#a
AttrInputs ==
    {[str |-> <<99, 110, 61, 97>>, Type |-> <<99, 110>>],
     [str |-> <<100, 99, 61, 98, 32, 99>>, Type |-> <<100, 99>>],
     [str |-> <<99, 110, 61, 97, 92, 44, 98>>, Type |-> <<99, 110>>],
     [str |-> <<99, 110, 61, 97, 92, 50, 67, 98>>, Type |-> <<99, 110>>],
     [str |-> <<49, 46, 49, 61, 35, 48, 52, 48, 49, 54, 49>>, Type |-> <<49, 46, 49>>],
     [str |-> <<49, 46, 49, 61, 35, 48, 52, 48, 49, 54, 65>>, Type |-> <<49, 46, 49>>],
     [str |-> <<111, 117, 61, 35, 48, 52, 48, 49, 54, 49>>, Type |-> <<111, 117>>],
     [str |-> <<99, 110, 61, 92, 32, 97, 92, 32>>, Type |-> <<99, 110>>],
     [str |-> <<111, 117, 61, 120, 92, 43, 121>>, Type |-> <<111, 117>>],
     [str |-> <<99, 110, 61>>, Type |-> <<99, 110>>],
     [str |-> <<99, 110, 61, 92, 48, 68>>, Type |-> <<99, 110>>],
     [str |-> <<115, 110, 61, 97, 92, 92>>, Type |-> <<115, 110>>],
     [str |-> <<99, 110, 61, 97, 61, 98>>, Type |-> <<99, 110>>],
     [str |-> <<99, 110, 61, 92, 35, 97>>, Type |-> <<99, 110>>]}

\* RDNs as written: one attribute, or two of the first, fifth and ninth
\* joined with '+'.
MultiValuedParts ==
    {a \in AttrInputs : a.str \in {<<99, 110, 61, 97>>, <<49, 46, 49, 61, 35, 48, 52, 48, 49, 54, 49>>,
                                   <<111, 117, 61, 120, 92, 43, 121>>}}

WrittenRDNs ==
    {<<a>> : a \in AttrInputs}
    \cup {<<a, b>> : a \in MultiValuedParts, b \in MultiValuedParts}

\* The string of an RDN as written, and of a sequence of them.
RECURSIVE WrittenRDN(_)
WrittenRDN(as) ==
    IF as = <<>> THEN <<>>
    ELSE Head(as).str \o (IF Len(as) > 1 THEN <<43>> ELSE <<>>)
         \o WrittenRDN(Tail(as))

RECURSIVE WrittenDN(_)
WrittenDN(rs) ==
    IF rs = <<>> THEN <<>>
    ELSE WrittenRDN(Head(rs)) \o (IF Len(rs) > 1 THEN <<44>> ELSE <<>>)
         \o WrittenDN(Tail(rs))

\* DN strings of up to MaxWrittenRDNs RDNs.
MaxWrittenRDNs == 2

NameInit ==
    /\ handler = "BaseHandler"
    /\ tlsConfig = FALSE
    /\ NewConn("tcp")
    /\ Accepting(FALSE)
    /\ NoCodec

\* ParseDN is called on a valid DN string.
ParseName ==
    /\ dnPc = "start"
    /\ \E rs \in SeqsUpTo(WrittenRDNs, MaxWrittenRDNs) :
          /\ dnWritten' = [j \in 1..Len(rs) |->
                              [k \in 1..Len(rs[j]) |-> rs[j][k].Type]]
          /\ dnStr' = WrittenDN(rs)
          /\ dnParsed' = ParseDN(WrittenDN(rs)).dn
          /\ dnErr' = ParseDN(WrittenDN(rs)).err
    /\ dnPc' = "parsed"
    /\ UNCHANGED <<connectionVars, berVars, msgVars, resVars, filterVars,
                   dnA, dnB, dnRel, dnOut>>

\* String() is called on the DN that ParseDN returned.
FormatName ==
    /\ dnPc = "parsed"
    /\ dnErr = NoErr
    /\ dnOut' = DNString(dnParsed)
    /\ dnPc' = "formatted"
    /\ UNCHANGED <<connectionVars, berVars, msgVars, resVars, filterVars,
                   dnA, dnB, dnRel, dnWritten, dnStr, dnParsed, dnErr>>

NameNext ==
    \/ ParseName
    \/ FormatName

NameSpec == NameInit /\ [][NameNext]_vars

TypeOK ==
    /\ asyncOperations \in 0..(2 * MaxMsgs)
    /\ nread \in 0..MaxMsgs
    /\ tlsW \in Ctx \cup {NoHolder}
    /\ sending \in Ctx \cup {NoHolder}
    /\ tlsReaders \subseteq Ctx

\* ------------------------------------------------------------------------
\* Properties

Running(i) == act[i].st = "running"
Unfinished(i) == act[i].st \in {"waiting", "deferred", "spawned", "running"}
ReaderWaitsFor(i) == nread = i /\ rpc \in {"call", "defercall"}
Writing(c) == cpc[c] \in {"write1", "write2"}
HoldsRLock(c) == cpc[c] \in {"slock", "write1", "write2", "sunlock"}
InStartTLS(c) == cpc[c] \in {"tls_check", "tls_handshake", "tls_flag", "tls_unlock"}
WritesFrame(c) == Writing(c) /\ ~closed /\ cpc'[c] # cpc[c]
NoticeOfDisconnection(b) ==
    /\ b.mid = 0 /\ b.op = TypeExtendedResponseOp
    /\ b.code = ResultProtocolError /\ b.name = OIDNoticeOfDisconnection
StartTLSSuccess(i, b) ==
    /\ b.mid = i /\ b.op = TypeExtendedResponseOp /\ b.code = ResultSuccess
    /\ b.io = "tcp"

\* C1: while the Bind handler callback of a connection is running, the
\* handler of no other message of the connection is running, pending on a
\* goroutine, deferred or waiting: all earlier ones have returned and no
\* later one has started.
C1_BindQuiesce ==
    \A i \in Acts : \A j \in Acts :
        (i # j /\ act[i].op = TypeBindRequestOp /\ Running(i)) => ~Unfinished(j)

C1_Witness ==
    \E i \in Acts : \E j \in Acts :
        /\ act[i].op = TypeBindRequestOp /\ Running(i) /\ cpc[i] = "write2"
        /\ j < i /\ act[j].async /\ act[j].st = "returned" /\ sent[j] # <<>>

\* C2: at most one context is writing to the socket at any time, a frame is
\* begun only at a frame boundary and its second piece follows its first
\* directly; this covers the message-id-0 notifications of the engine.
C2_SendSerialized ==
    /\ Cardinality({c \in Ctx : Writing(c)}) <= 1
    /\ \A c \in Ctx :
          /\ (cpc[c] = "write1" /\ ~closed) => wire = NoBytes
          /\ cpc[c] = "write2" => wire = Bytes(c, 1)

C2_Witness ==
    /\ cpc[0] = "write2" /\ Head(script[0]).mid = 0
    /\ \E c \in Acts : cpc[c] = "slock"

\* C3: while the reader is blocked in ReadMessage and no StartTLS is in
\* progress, a handler that calls SendMessage can take the TLS-upgrade
\* barrier (the reader does not hold it exclusively).
C3_SendWhileReading ==
    \A c \in Acts :
        (/\ rpc = "read"
         /\ Calling(c, "SendResult") /\ cpc[c] = "idle"
         /\ \A d \in Acts : cpc[d] \notin {"tls_lockwait"} /\ ~InStartTLS(d))
        => CanRLock

\* C4 as claimed: no BindResponse (for a Bind of any version) is written
\* while the handler of a message received earlier is still running.
C4_AnyBindResponseAfterPrior ==
    [][\A c \in Ctx :
          (WritesFrame(c) /\ Head(script[c]).op = TypeBindResponseOp)
          => \A j \in Acts : j < Head(script[c]).mid => ~Running(j)]_vars

\* C4 as amended: the BindResponse written by the Bind handler, which is
\* called for version-3 Binds only, is not written while the handler of a
\* message received earlier is still running.
C4_BindResponseAfterPrior ==
    [][\A c \in Acts :
          (WritesFrame(c) /\ Head(script[c]).op = TypeBindResponseOp)
          => \A j \in Acts : j < Head(script[c]).mid => ~Unfinished(j)]_vars

C4_Witness ==
    \E i \in Acts : \E j \in Acts :
        /\ act[i].op = TypeBindRequestOp /\ Running(i) /\ cpc[i] = "write1"
        /\ ~closed
        /\ j < i /\ act[j].async /\ act[j].st = "returned"

\* C5: while a context is inside StartTLS with the barrier held, the reader
\* is not in ReadMessage and no context is in SendMessage past RLock.
C5_UpgradeBarrier ==
    \A c \in Ctx :
        InStartTLS(c) => (rpc # "read" /\ \A d \in Ctx : ~HoldsRLock(d))

C5_Witness ==
    \E c \in Acts : \E d \in Acts :
        /\ act[c].async /\ cpc[c] = "tls_handshake"
        /\ rpc = "loop" /\ ~closed
        /\ Calling(d, "SendResult") /\ cpc[d] = "idle"

\* C6: while BaseHandler.Extended is in conn.StartTLS for a StartTLS request,
\* the success response of that request has been written completely to the
\* cleartext socket, and the reader is still inside that handler call.
C6_ResponseBeforeHandshake ==
    \A i \in Acts :
        (handler = "BaseHandler" /\ act[i].op = TypeExtendedRequestOp
         /\ Calling(i, "StartTLS"))
        => /\ Len(sent[i]) = 1 /\ StartTLSSuccess(i, sent[i][1])
           /\ ReaderWaitsFor(i)

C6_Witness ==
    \E i \in Acts :
        /\ handler = "BaseHandler" /\ act[i].op = TypeExtendedRequestOp
        /\ cpc[i] = "tls_handshake"

C9_ModifyConcurrent ==
    \A i \in Acts :
        (act[i].op \in {TypeModifyRequestOp, TypeModifyDNRequestOp} /\ Running(i))
        => ~ReaderWaitsFor(i)

\* C10: while the handler of an Abandon or Extended request has not
\* returned, the reader is inside that handler call and reads nothing.
C10_AbandonExtendedSync ==
    \A i \in Acts :
        (act[i].op \in {TypeAbandonRequestOp, TypeExtendedRequestOp} /\ Unfinished(i))
        => (ReaderWaitsFor(i) /\ rpc = "call")

C10_Witness ==
    \E i \in Acts : \E j \in Acts :
        /\ act[i].op = TypeExtendedRequestOp /\ Running(i) /\ cpc[i] = "write2"
        /\ act[j].async /\ Running(j)

BetweenMessages == rpc \in {"loop", "lockwait", "read", "exit"}
InFlight == {i \in Acts : act[i].async /\ act[i].st \in {"spawned", "running"}}

\* C11: the in-flight counter is never negative and is at least the number
\* of Add/Compare/Delete/Search handlers dispatched to a goroutine that have
\* not returned; it is zero when the reader is between messages and every
\* dispatched handler has returned.
C11_InFlightCounter ==
    /\ asyncOperations >= 0
    /\ asyncOperations >= Cardinality(InFlight)
    /\ (BetweenMessages /\ \A i \in Acts : ~Unfinished(i)) => asyncOperations = 0

C11_Witness ==
    /\ rpc = "read" /\ nread = 1
    /\ act[1].async /\ Running(1) /\ Calling(1, "SendResult")
    /\ asyncOperations = 1

RejectedBind(i) == act[i].op = TypeBindRequestOp /\ act[i].st = "nohandler"
ResponsesTo(i) == {k \in DOMAIN sent[0] : sent[0][k].mid = i}

\* C12: a well-formed Bind request whose version is not 3 is answered by the
\* engine with exactly one BindResponse carrying protocolError and the
\* message id of the request; the Bind callback is never called for it and
\* the connection is left open.
C12_BindVersionRejected ==
    /\ [](\A i \in Acts : RejectedBind(i) =>
            /\ script[i] = <<>> /\ sent[i] = <<>> /\ cpc[i] = "idle"
            /\ \A k \in ResponsesTo(i) :
                  /\ sent[0][k].op = TypeBindResponseOp
                  /\ sent[0][k].code = ResultProtocolError
            /\ Cardinality(ResponsesTo(i)) <= 1
            /\ (nread > i \/ rpc # "engine") => Cardinality(ResponsesTo(i)) = 1
            /\ nread = i => ~closed)
    /\ [][\A i \in Acts : RejectedBind(i) => act'[i] = act[i]]_vars
    /\ [][(Dispatching /\ ~DecodeFails(cur) /\ cur.op = TypeBindRequestOp
            /\ cur.arg # "v3" /\ rpc' # rpc) => RejectedBind(nread)']_vars

C12_Witness ==
    /\ RejectedBind(2) /\ rpc = "loop" /\ Cardinality(ResponsesTo(2)) = 1
    /\ act[1].async /\ Running(1)

Unbound(i) == act[i].op = TypeUnbindRequestOp

\* C13: on an Unbind request the engine closes the connection, writes no
\* message for it and calls no handler for it; no message is read or
\* dispatched after it.
C13_Unbind ==
    /\ [](\A i \in Acts : Unbound(i) =>
            /\ closed
            /\ act[i].st = "nohandler"
            /\ script[i] = <<>> /\ cpc[i] = "idle"
            /\ script[0] = <<>> /\ cpc[0] = "idle"
            /\ \A c \in Ctx : \A k \in DOMAIN sent[c] : sent[c][k].mid # i
            /\ nread = i
            /\ rpc \in {"ret", "loop", "exit"})
    /\ [][\A i \in Acts : Unbound(i) =>
            (act'[i] = act[i] /\ nread' = nread /\ sent'[0] = sent[0])]_vars
    /\ [][(Dispatching /\ cur.op = TypeUnbindRequestOp /\ rpc' # rpc)
          => Unbound(nread)']_vars

C13_Witness ==
    /\ Unbound(2) /\ rpc = "exit"
    /\ act[1].async /\ Running(1) /\ Calling(1, "SendResult")

ShutdownReturned == \E k \in Callers : shut[k] = "returned"

\* C14: once a Shutdown call has returned, the accept loop is not running
\* and no connection is accepted afterwards.
C14_ShutdownStopsAccept ==
    /\ [](ShutdownReturned => srv # "accept")
    /\ [][ShutdownReturned => accepted' = accepted]_vars

\* C15: when one goroutine calls Shutdown and no other does, the call
\* returns, whether it finds s.listener nil or set; and a Serve goroutine
\* that has begun the send on the done channel completes it.
C15_LifecycleTerminates ==
    /\ \A k \in Callers :
          [](\A j \in Callers \ {k} : shut[j] = "idle")
          => ((shut[k] = "check") ~> (shut[k] = "returned"))
    /\ (srv = "send") ~> (srv = "returned")

C15_Witness ==
    /\ shut[1] = "returned" /\ shut[2] = "idle"
    /\ doneClosed /\ done = "nil"
    /\ srv = "returned" /\ accepted = 1

\* The handler callback of message i is invoked in this step.
Invoked(i) == ~Running(i) /\ Running(i)'
UnwillingOps == {TypeAddRequestOp, TypeBindRequestOp, TypeCompareRequestOp,
                 TypeDeleteRequestOp, TypeModifyRequestOp, TypeModifyDNRequestOp,
                 TypeSearchRequestOp}
OneResult(i, code) ==
    /\ Len(script[i]) = 1
    /\ Head(script[i]).f = "SendResult"
    /\ Head(script[i]).mid = i
    /\ Head(script[i]).code = code

\* C16 as claimed: BaseHandler, invoked for anything but Abandon and a
\* StartTLS extended request, sends one response with the message id of the
\* request and unwillingToPerform, and does nothing else.
C16_BaseHandlerUnwilling ==
    [][\A i \in Acts :
          (/\ handler = "BaseHandler" /\ Invoked(i)
           /\ act'[i].op # TypeAbandonRequestOp
           /\ ~(act'[i].op = TypeExtendedRequestOp /\ cur.arg = OIDStartTLS))
          => OneResult(i, ResultUnwillingToPerform)']_vars

\* C16 as amended: BaseHandler answers Add, Bind, Compare, Delete, Modify,
\* ModifyDN and Search with one response carrying the message id of the
\* request and unwillingToPerform, written unless the connection has been
\* closed meanwhile, and does not close the connection; it answers an
\* Extended request other than StartTLS with one protocolError response,
\* and an unknown operation with a Notice of Disconnection and Close.
C16_BaseHandlerAnswers ==
    /\ [][\A i \in Acts :
            (handler = "BaseHandler" /\ Invoked(i)) =>
                CASE act'[i].op \in UnwillingOps ->
                        /\ OneResult(i, ResultUnwillingToPerform)'
                        /\ Head(script'[i]).op = ResponseType(act'[i].op)
                  [] act'[i].op = TypeExtendedRequestOp /\ cur.arg # OIDStartTLS ->
                        OneResult(i, ResultProtocolError)'
                  [] act'[i].op = "Unknown" ->
                        script'[i] = <<NotifyDisconnect(ResultProtocolError), CloseCall>>
                  [] OTHER -> TRUE]_vars
    /\ [](\A i \in Acts :
            (handler = "BaseHandler" /\ act[i].op \in UnwillingOps
             /\ act[i].st = "returned") =>
                /\ Len(sent[i]) <= 1
                /\ ~closed => Len(sent[i]) = 1
                /\ \A k \in DOMAIN sent[i] :
                      /\ sent[i][k].mid = i
                      /\ sent[i][k].code = ResultUnwillingToPerform
                      /\ sent[i][k].op = ResponseType(act[i].op))
    /\ [][\A i \in Acts :
            (handler = "BaseHandler" /\ act[i].op \in UnwillingOps
             /\ script'[i] # script[i]) => closed' = closed]_vars

C16_Witness ==
    /\ handler = "BaseHandler" /\ ~closed /\ rpc = "read"
    /\ act[1].op = TypeModifyRequestOp /\ act[1].st = "returned" /\ Len(sent[1]) = 1
    /\ act[2].op = TypeSearchRequestOp /\ act[2].st = "returned" /\ Len(sent[2]) = 1

HandlerWrites(i) ==
    /\ Running(i) /\ script[i] # <<>>
    /\ Head(script[i]).f \in {"SetAuthentication", "CachePut"}
    /\ script'[i] = Tail(script[i])

C18_IsTLSReportsTransport ==
    /\ (\A c \in Ctx : cpc[c] # "tls_flag") => (isTLS <=> conn = "tls")
    /\ \A c \in Ctx : cpc[c] = "tls_handshake" => conn = "tcp"

\* Least number of bytes that hold i in two's complement.
MinBytes(i) ==
    IF -128 <= i /\ i <= 127 THEN 1
    ELSE IF -32768 <= i /\ i <= 32767 THEN 2
    ELSE IF -8388608 <= i /\ i <= 8388607 THEN 3
    ELSE 4

\* C19: BerGetInteger(BerEncodeIntegerRaw(i)) returns i without error, and
\* the encoding has the least number of two's-complement bytes (128 is
\* 00 80, -129 is ff 7f).
C19_IntegerRoundTrip ==
    berPc = "decoded" =>
        /\ berErr = NoErr
        /\ berVal = berInt
        /\ Len(berBytes) = MinBytes(berInt)
        /\ berInt = 128 => berBytes = <<0, 128>>
        /\ berInt = -129 => berBytes = <<255, 127>>

\* Big-endian value of up to four bytes, as two 16-bit halves.
BigEndian(bs) ==
    LET padded == [j \in 1..(4 - Len(bs)) |-> 0] \o bs
    IN  [hi |-> padded[1] * 256 + padded[2], lo |-> padded[3] * 256 + padded[4]]

\* C20: BerReadSize returns a first byte of at most 0x7f itself; for a first
\* byte 0x80+X with X in 1..4 it returns the big-endian value of the next X
\* bytes; for X > 4 it fails with IntegerTooLarge; for X = 0 it fails.
C20_ReadSize ==
    berPc = "size" =>
        LET first == berBytes[1]
            X == first - 128
        IN  /\ first <= 127 =>
                  (berErr = NoErr /\ berSize = [hi |-> 0, lo |-> first])
            /\ (X \in 1..4 /\ Len(berBytes) >= 1 + X) =>
                  (berErr = NoErr
                   /\ berSize = BigEndian(SubSeq(berBytes, 2, 1 + X)))
            /\ berBytes = <<132, 255, 0, 255, 0>> =>
                  berSize = [hi |-> 65280, lo |-> 65280]
            /\ X > 4 => berErr = ErrIntegerTooLarge
            /\ X = 0 => berErr # NoErr

\* Least number of bytes that hold the size n, given as two halves.
MinSizeBytes(n) ==
    IF n.hi = 0 /\ n.lo <= 255 THEN 1
    ELSE IF n.hi = 0 THEN 2
    ELSE IF n.hi <= 255 THEN 3
    ELSE 4

\* C21: for a size n up to 2^32-1 BerEncodeElement writes the one byte n
\* when n < 0x80, and otherwise 0x80+k and the big-endian value of n in the
\* least number k of bytes (k = 1 for 0x80..0xff); BerReadSize of the
\* written length returns n.
C21_LengthEncoding ==
    berPc = "length_read" =>
        /\ berErr = NoErr
        /\ berSize = berLen
        /\ (berLen.hi = 0 /\ berLen.lo < 128) => berBytes = <<berLen.lo>>
        /\ ~(berLen.hi = 0 /\ berLen.lo < 128) =>
              /\ berBytes[1] = 128 + MinSizeBytes(berLen)
              /\ Len(berBytes) = 1 + MinSizeBytes(berLen)
              /\ BigEndian(Tail(berBytes)) = berLen

\* The third member of the LDAPMessage sequence in msgBytes.
ControlsElement ==
    BerGetSequence(BerReadElement(msgBytes).Data).elmts[3]

\* C22: ReadLDAPMessage(m.EncodeWithHeader()) succeeds and returns the
\* message id, the op tag and payload and the controls of m, in order; the
\* encoder writes the controls as a context-specific[0] constructed element.
C22_MessageRoundTrip ==
    /\ msgPc = "read" =>
          /\ msgErr = NoErr
          /\ msgRead.MessageID = msg.MessageID
          /\ msgRead.ProtocolOp = msg.ProtocolOp
          /\ msgRead.Controls = msg.Controls
    /\ (msgPc \in {"encoded", "read"} /\ msg.Controls # <<>>) =>
          ControlsElement.Type = BerContextSpecificType(0, TRUE)

\* The fourth member of the encoded Result in msgBytes.
ReferralElement == BerGetSequence(msgBytes).elmts[4]

\* C23: GetResult(r.Encode()) succeeds and returns the result code, matched
\* DN, diagnostic message and referral URIs of r, in order; the referrals
\* are written as a context-specific[3] constructed element.
C23_ResultRoundTrip ==
    /\ msgPc = "result_read" =>
          /\ msgErr = NoErr
          /\ resultRead = result
    /\ (msgPc \in {"result_encoded", "result_read"} /\ result.Referral # <<>>) =>
          ReferralElement.Type = BerContextSpecificType(3, TRUE)

\* The substring choices have an initial only as the first element, a final
\* only as the last one, and no tag other than 0, 1 and 2.
WellFormedSubstrings(cs) ==
    \A j \in 1..Len(cs) :
        /\ TagNumber(cs[j].Type) \in {0, 1, 2}
        /\ TagNumber(cs[j].Type) = 0 => j = 1
        /\ TagNumber(cs[j].Type) = 2 => j = Len(cs)

\* C24: GetFilter accepts a Substrings filter only if an initial element
\* appears at most once and first, a final element at most once and last,
\* and every element has tag 0, 1 or 2; every other sequence is rejected.
C24_SubstringsValidated ==
    (filterPc = "substrings" /\ filterErr = NoErr) => WellFormedSubstrings(members)

\* The types of the members, in order.
MemberTypes(ms) == [j \in 1..Len(ms) |-> ms[j].Type]

\* [1] matchingRule and [2] type, at least one of them, then [3] matchValue
\* and optionally [4] dnAttributes.
WellFormedAssertion(ms) ==
    \E head \in {<<129>>, <<130>>, <<129, 130>>} :
        \E tail \in {<<131>>, <<131, 132>>} : MemberTypes(ms) = head \o tail

\* C25: GetFilter accepts an ExtensibleMatch only when its members are, in
\* order, an optional [1] matchingRule, an optional [2] attribute, a
\* mandatory [3] matchValue and an optional [4] dnAttributes boolean
\* (default false), with at least one of matchingRule and attribute.
C25_ExtensibleMatchValidated ==
    (filterPc = "extensible" /\ filterErr = NoErr) =>
        /\ WellFormedAssertion(members)
        /\ 132 \notin {members[j].Type : j \in 1..Len(members)} =>
              filter.Data.DNAttributes = FALSE

\* a is a prefix of b.
IsPrefix(a, b) == Len(a) <= Len(b) /\ SubSeq(b, 1, Len(a)) = a

\* The DN without its last RDN; the empty DN for the empty DN.
ParentOf(a) == SubSeq(a, 1, Len(a) - 1)

\* The longest sequence that is a prefix of both a and b.
LongestCommonPrefix(a, b) ==
    CHOOSE p \in {SubSeq(a, 1, n) : n \in 0..Len(a)} :
        /\ IsPrefix(p, b)
        /\ \A n \in 0..Len(a) : IsPrefix(SubSeq(a, 1, n), b) => n <= Len(p)

\* C27: IsSuperior is strict proper prefix; IsParent is prefix with one RDN
\* more; IsChild and IsSubordinate are their converses; IsSibling is equal
\* length and same parent; CommonSuperior is the longest common prefix, and
\* empty when either DN is empty.
C27_DNPredicates ==
    dnPc = "compared" =>
        /\ dnRel.IsSuperior <=> (IsPrefix(dnA, dnB) /\ Len(dnA) < Len(dnB))
        /\ dnRel.IsParent <=> (IsPrefix(dnA, dnB) /\ Len(dnB) = Len(dnA) + 1)
        /\ dnRel.IsChild <=> (IsPrefix(dnB, dnA) /\ Len(dnA) = Len(dnB) + 1)
        /\ dnRel.IsSubordinate <=> (IsPrefix(dnB, dnA) /\ Len(dnB) < Len(dnA))
        /\ dnRel.IsSibling <=>
              (Len(dnA) = Len(dnB) /\ ParentOf(dnA) = ParentOf(dnB))
        /\ dnRel.CommonSuperior = LongestCommonPrefix(dnA, dnB)
        /\ (dnA = <<>> \/ dnB = <<>>) => dnRel.CommonSuperior = <<>>

\* A DN and a proper superior of it two levels up have been compared.
C27_Witness ==
    /\ dnPc = "compared"
    /\ Len(dnA) = 1 /\ Len(dnB) = 3
    /\ dnRel.IsSuperior /\ ~dnRel.IsParent
    /\ dnRel.CommonSuperior = dnA

\* The attribute types of the parsed DN, RDN by RDN.
ParsedTypes ==
    [j \in 1..Len(dnParsed) |->
        [k \in 1..Len(dnParsed[j]) |-> dnParsed[j][k].Type]]

\* C26: for a valid DN string s, ParseDN(s) succeeds and its String() is s;
\* the parsed DN has the RDNs of s in reverse order and the attributes of
\* each RDN in the written order.
C26_DNStringRoundTrip ==
    /\ dnPc \in {"parsed", "formatted"} =>
          /\ dnErr = NoErr
          /\ ParsedTypes = Reverse(dnWritten)
    /\ dnPc = "formatted" => dnOut = dnStr

\* C28: the bytes SendResult(id, controls, type, result) writes decode with
\* ReadLDAPMessage to a Message whose MessageID is id, for every id up to
\* 2^31-1.
C28_ResponseCarriesRequestID ==
    msgPc = "sent_read" =>
        /\ msgErr = NoErr
        /\ msgRead.MessageID = msg.MessageID

\* Another goroutine has called Shutdown before or while k does.
OtherShutdown(k) == \E j \in Callers \ {k} : shut[j] # "idle"

\* C30: when Shutdown has been called on a served server, a further call,
\* after the first has returned or while it runs, returns as well: no call
\* panics on closing the done channel and none waits on it for ever.
C30_ShutdownRepeatable ==
    /\ [](\A k \in Callers : shut[k] # "panicked")
    /\ \A k \in Callers :
          (shut[k] = "check" /\ OtherShutdown(k)) ~> (shut[k] = "returned")

\* The state of act[i] when handleMessage is at asyncOperations.Wait() of a
\* version-3 Bind request.
BindAtWait(i) == act[i].op = TypeBindRequestOp /\ act[i].st = "waiting"

====
